---- MODULE Spec2Model ----
(***************************************************************************)
(* Population / export / validation pipeline of the ZIP-code business      *)
(* pattern store (industries/naics/duck_zipcode_db).                        *)
(*                                                                         *)
(* One per-year DuckDB store (tables DimZipCode, DimYear, DataEntry and    *)
(* the sequence entryid_seq), one ZipPopulator instance at a time, the     *)
(* DataExporter writing the per-state CSV files and the DataExporterTest    *)
(* validator reading them back.  The Census API is the environment: its    *)
(* status and the ZIP codes it reports are chosen nondeterministically.    *)
(*                                                                         *)
(* Geography ids are 5-character ZIP strings in the code; they are kept    *)
(* here as the numbers they spell, so that the ORDER BY GeoID of the       *)
(* export (a comparison of equal-width digit strings) is the order of the  *)
(* numbers.                                                                *)
(***************************************************************************)
EXTENDS Integers, Sequences, FiniteSets, TLC

(***************************************************************************)
(* Bounds of the model.                                                    *)
(***************************************************************************)
\* the year the commands are invoked for (populate_data.py <year>)
TargetYear == 2019
\* the year of the wall clock (datetime.datetime.now().year)
CurrentYear == 2021
\* number of data lines of one API answer
MaxRows == 2
\* number of get_zip_for_year runs
MaxRuns == 2
\* number of full exports (make_csv())
MaxExports == 1
\* years of the selection specification: YearLo .. YearLo + YearSpan
YearLo == 1998
YearSpan == 24

(***************************************************************************)
(* Program constants.                                                      *)
(***************************************************************************)
BatchSize == 1000
MaxRetryAttempt == 5
SentinelGeoID == 99999
FirstZbpYear == 2012

\* SQL NULL / Python None in the State and City columns
Null == "<NULL>"

\* industry_levels=[2, 5, 6] of populate_data.py and export_data.py
industry_levels == <<2, 5, 6>>

\* the column relevant_naics of id_lists/industry_id_list.csv, as read by
\* pandas (integers): all industries, one level-3 code, one level-5 code
industry_id_list == <<0, 111, 11111>>

\* ZIP codes the remote data set knows, 99999 being its "unclassified" ZIP
ApiZips == {1, 2, SentinelGeoID}

\* (geo_id, city, state) triples the geography labels of the API may parse to
LabelUniverse ==
    { [GeoID |-> 1, City |-> "A", State |-> "CA"],
      [GeoID |-> 2, City |-> "B", State |-> "CA"],
      [GeoID |-> 2, City |-> "B", State |-> "NV"] }

\* HTTP statuses the API answers with
Statuses == {200, 204, 304, 404, 429, 500}

(***************************************************************************)
(* Helpers on sequences and sets.                                          *)
(***************************************************************************)
Range(s) == { s[i] : i \in DOMAIN s }

RECURSIVE Perms(_)
\* every enumeration of the finite set S as a sequence
Perms(S) ==
    IF S = {} THEN { <<>> }
    ELSE UNION { { <<x>> \o p : p \in Perms(S \ {x}) } : x \in S }

\* the sequences of at most n elements of S, none repeated
SeqsNoDup(S, n) ==
    UNION { Perms(T) : T \in { U \in SUBSET S : Cardinality(U) <= n } }

(***************************************************************************)
(* str(int(x)): decimal digits of a natural number.                        *)
(***************************************************************************)
Digit(d) == CASE d = 0 -> "0" [] d = 1 -> "1" [] d = 2 -> "2" [] d = 3 -> "3"
              [] d = 4 -> "4" [] d = 5 -> "5" [] d = 6 -> "6" [] d = 7 -> "7"
              [] d = 8 -> "8" [] d = 9 -> "9"

RECURSIVE IntToStr(_)
IntToStr(n) == IF n < 10 THEN Digit(n) ELSE IntToStr(n \div 10) \o Digit(n % 10)

(***************************************************************************)
(* Request construction (ZipPopulator._get_response_data).                 *)
(***************************************************************************)
\* the selector with the NAICS2012 range closed one year late
naics_year_selector_2017(year) ==
    IF year >= 2000 /\ year <= 2002 THEN "NAICS1997"
    ELSE IF year >= 2003 /\ year <= 2007 THEN "NAICS2002"
    ELSE IF year >= 2008 /\ year <= 2011 THEN "NAICS2007"
    ELSE IF year >= 2012 /\ year <= 2017 THEN "NAICS2012"
    ELSE "NAICS2017"

\* ZipPopulator._naics_year_selector
naics_year_selector(year) ==
    IF year >= 2000 /\ year <= 2002 THEN "NAICS1997"
    ELSE IF year >= 2003 /\ year <= 2007 THEN "NAICS2002"
    ELSE IF year >= 2008 /\ year <= 2011 THEN "NAICS2007"
    ELSE IF year >= 2012 /\ year <= 2016 THEN "NAICS2012"
    ELSE "NAICS2017"

\* the local _naics_year_selector of DatabasePopulator.populate_year
year_dim_selector(year) ==
    IF year >= 2000 /\ year <= 2002 THEN "NAICS1997"
    ELSE IF year >= 2003 /\ year <= 2007 THEN "NAICS2002"
    ELSE IF year >= 2008 /\ year <= 2011 THEN "NAICS2007"
    ELSE IF year >= 2012 /\ year <= 2016 THEN "NAICS2012"
    ELSE "NAICS2017"

\* the endpoint of the request: zbp, replaced by cbp for years after 2018
endpoint(year) == IF year > 2018 THEN "cbp" ELSE "zbp"

\* "Standardize the sector code if it's '0'"
standardize_sector(sector) == IF sector = "0" THEN "00" ELSE sector

\* the url of _get_response_data, kept as its parts
build_url(sector, year) ==
    [ endpoint |-> endpoint(year),
      year     |-> year,
      code     |-> naics_year_selector(year),
      sector   |-> standardize_sector(sector) ]

(***************************************************************************)
(* The industry list of a run (ZipPopulator.get_zip_for_year).             *)
(***************************************************************************)
\* astype(int).astype(str).replace({'0': '00'})
relevant_naics(v) == IF IntToStr(v) = "0" THEN "00" ELSE IntToStr(v)

RECURSIVE filter_levels(_, _)
\* industries[industries['level'].isin(self.industry_levels)]
filter_levels(codes, levels) ==
    IF codes = <<>> THEN <<>>
    ELSE IF Len(Head(codes)) \in Range(levels)
         THEN <<Head(codes)>> \o filter_levels(Tail(codes), levels)
         ELSE filter_levels(Tail(codes), levels)

filtered_industries ==
    filter_levels([ i \in DOMAIN industry_id_list |-> relevant_naics(industry_id_list[i]) ],
                  industry_levels)

(***************************************************************************)
(* The remote data set.  An answer to status 200 is the header row and     *)
(* one line <<ZIPCODE, code, ESTAB, EMP, PAYANN>> per ZIP code reported,   *)
(* every line carrying the sector the request asked for.                   *)
(***************************************************************************)
ApiHeader(url) == <<"ZIPCODE", url.code, "ESTAB", "EMP", "PAYANN">>

ApiLine(zip, url) ==
    << zip, url.sector, (zip % 7) + Len(url.sector), 10 * ((zip % 7) + 1), 1000 * Len(url.sector) >>

\* the JSON bodies the API may send for a url: the ZIP codes and their order vary
ApiBodies(url) ==
    { <<ApiHeader(url)>> \o [ i \in DOMAIN zs |-> ApiLine(zs[i], url) ] :
        zs \in SeqsNoDup(ApiZips, MaxRows) }

(***************************************************************************)
(* The Fact Store (DatabasePopulator).                                     *)
(***************************************************************************)
\* ZipPopulator._create_row, with the column names of insert_data_entries
create_row(naics_code, line, year) ==
    [ GeoID |-> line[1], NaicsCode |-> naics_code, Year |-> year,
      Establishments |-> line[3], Employees |-> line[4], Payroll |-> line[5],
      IndustryLevel |-> Len(naics_code) ]

\* the existence check with its two arguments taken in the other order
exists_swapped_arguments(entries, year, sector) ==
    \E e \in entries : IntToStr(e.Year) = sector /\ e.NaicsCode = IntToStr(year)

\* the existence check on a sector stripped of its leading zero
exists_unpadded_sector(entries, year, sector) ==
    \E e \in entries : e.Year = year /\ e.NaicsCode = (IF sector = "00" THEN "0" ELSE sector)

\* DatabasePopulator.data_for_year_and_sector_exists
data_for_year_and_sector_exists(entries, year, sector) ==
    \E e \in entries : e.Year = year /\ e.NaicsCode = sector

\* a bulk load that replaces the rows of the table
insert_data_entries_overwrite(entries, nextid, data_rows) ==
    { [ EntryID |-> nextid + i - 1, GeoID |-> data_rows[i].GeoID,
        NaicsCode |-> data_rows[i].NaicsCode, Year |-> data_rows[i].Year,
        Establishments |-> data_rows[i].Establishments,
        Employees |-> data_rows[i].Employees, Payroll |-> data_rows[i].Payroll,
        IndustryLevel |-> data_rows[i].IndustryLevel ] : i \in DOMAIN data_rows }

\* DatabasePopulator.insert_data_entries: ids from entryid_seq, then one COPY
insert_data_entries(entries, nextid, data_rows) ==
    entries \cup
    { [ EntryID |-> nextid + i - 1, GeoID |-> data_rows[i].GeoID,
        NaicsCode |-> data_rows[i].NaicsCode, Year |-> data_rows[i].Year,
        Establishments |-> data_rows[i].Establishments,
        Employees |-> data_rows[i].Employees, Payroll |-> data_rows[i].Payroll,
        IndustryLevel |-> data_rows[i].IndustryLevel ] : i \in DOMAIN data_rows }

\* the test of a table that finds every table empty
data_exists_never(row_count) == FALSE

\* DatabasePopulator.data_exists, of a table of row_count rows
data_exists(row_count) == row_count >= 1

\* the placeholder row "for missing zip code information"
SentinelRow == [GeoID |-> SentinelGeoID, City |-> Null, State |-> Null]

\* the population of the geography table without its placeholder row
populate_dim_zipcode_no_placeholder(dim, unique_zip_code_data) ==
    IF data_exists(Cardinality(dim)) THEN dim ELSE unique_zip_code_data

\* DatabasePopulator.populate_dim_zipcode: no-op on a non-empty table, else
\* the parsed (geo_id, city, state) triples and the placeholder row
populate_dim_zipcode(dim, unique_zip_code_data) ==
    IF data_exists(Cardinality(dim)) THEN dim
    ELSE unique_zip_code_data \cup { SentinelRow }

\* format_naics of populate_naics: '00' for 0, else str(int(value)).zfill(2)
format_naics(value) ==
    IF value = 0 THEN "00"
    ELSE IF Len(IntToStr(value)) < 2 THEN "0" \o IntToStr(value) ELSE IntToStr(value)

\* DatabasePopulator.populate_naics: no-op on a non-empty table, else one
\* row per line of id_lists/industry_id_list.csv
populate_naics(dim) ==
    IF data_exists(Len(dim)) THEN dim
    ELSE dim \o [ i \in DOMAIN industry_id_list |->
                    [ NaicsCode |-> format_naics(industry_id_list[i]) ] ]

\* DatabasePopulator.populate_year: no-op on a non-empty table, else the
\* (year, revision) pairs of range(startyear, endyear + 1)
populate_year(dim, startyear, endyear) ==
    IF data_exists(Cardinality(dim)) THEN dim
    ELSE { [Year |-> y, YearDescription |-> year_dim_selector(y)] : y \in startyear..endyear }

(***************************************************************************)
(* Paths.  A path is the sequence of its components; the commands run with *)
(* the repository root as working directory.                               *)
(***************************************************************************)
RepoRoot == <<"repo">>
Cwd == RepoRoot
\* os.path.dirname(os.path.abspath(__file__)) of duck_db_exporter.py
ExporterModuleDir == RepoRoot \o <<"industries", "naics", "duck_zipcode_db", "exporter">>
\* export_dir of DataExporter.__init__ (the default) and of the two commands
DefaultExportDir == <<"..", "..", "US", "zip">>
CommandExportDir == <<".", "industries", "naics", "US", "zip">>

RECURSIVE resolve(_, _)
\* the directory the file system reaches for a path: "." stays, ".." goes up
resolve(done, path) ==
    IF path = <<>> THEN done
    ELSE IF Head(path) = "." THEN resolve(done, Tail(path))
    ELSE IF Head(path) = ".."
         THEN resolve(IF done = <<>> THEN done ELSE SubSeq(done, 1, Len(done) - 1), Tail(path))
    ELSE resolve(Append(done, Head(path)), Tail(path))

\* DataExporter.__init__: os.path.join(<module directory>, self.export_dir)
absolute_export_dir(export_dir) == resolve(<<>>, ExporterModuleDir \o export_dir)

\* DataExporterTest._count_rows_in_csv: os.path.join(self.export_dir, ...),
\* a relative path, opened from the working directory
validator_export_dir(export_dir) == resolve(<<>>, Cwd \o export_dir)

\* the file US-<state>-census-naics<level>-zip-<year>.csv of a state directory
csv_file(dir, state, level, year) ==
    [ dir |-> Append(dir, state), state |-> state, level |-> level, year |-> year ]

(***************************************************************************)
(* State.                                                                  *)
(***************************************************************************)
VARIABLES
    pc,                 \* where the pipeline stands
    zp,                 \* whether a ZipPopulator instance has been constructed
    failed_attempts,    \* ZipPopulator.failed_attempts
    dbExists,           \* whether the year's store file has been created
    DimZipCode,         \* table DimZipCode
    DimYear,            \* table DimYear
    DataEntry,          \* table DataEntry
    entryid_seq,        \* the last value of the sequence entryid_seq
    idx,                \* position of the run in the filtered industry list
    industry,           \* the industry _get_zip_and_year_help was called with
    sector,             \* parameter sector of _get_response_data
    attempt,            \* parameter attempt of _get_response_data
    url,                \* the url of the last request
    data,               \* data lines of the answer not yet handed to the store
    hist,               \* statuses received for the pair, in order (history)
    slept,              \* seconds slept before each retry of the pair, in order (history)
    answer,             \* data lines of the pair's 200 answer (history)
    existedAtStart,     \* existence check at the start of the pair (history)
    runNo,              \* number of get_zip_for_year runs started
    entriesAtRunStart,  \* DataEntry when the current run started (history)
    export_dir,         \* export_dir the exporter command was configured with
    csv,                \* the CSV files on disk: file -> rows
    states,             \* the states of the export in progress
    sIdx,               \* position of the export in states
    industry_level_row_counts,
    total_rows_exported,
    exportNo,           \* number of full exports started
    entriesAtExport,    \* DataEntry when the last export started (history)
    verdict,            \* result of DataExporterTest.run_test
    compared,           \* the (state, level) pairs run_test compared (history)
    selInput,           \* year of a request; startyear, endyear of the DatabasePopulator
    DimNaics,           \* table DimNaics, its rows in insertion order
    geo_fetch,          \* whether the open of the current run fetched the geography (history)
    outcomes,           \* how the pairs of the current run ended, in order (history)
    batches,            \* the batches handed to insert_data_entries for the pair (history)
    store_error,        \* whether a bulk load of the current run failed (history)
    cli,                \* a command of .github/scripts: its arguments and what it did
    zipreq,             \* a per-ZIP request of zip_data/duck_db_manager and what it did
    xp,                 \* an export that an interrupt may reach
    par,                \* an export made by one worker per state
    eng,                \* two population engines at work at the same time
    paths,              \* an entry path of the population loop and its industry codes
    xf,                 \* an export some of whose units fail
    vt,                 \* a validation some of whose reads fail
    sched               \* the gap detection of check_for_updates.py

popVars == << zp, failed_attempts, idx, industry, sector, attempt, url, data, hist, slept,
              answer, existedAtStart, runNo, entriesAtRunStart, geo_fetch, outcomes,
              batches, store_error >>
dbVars == << dbExists, DimZipCode, DimYear, DimNaics, DataEntry, entryid_seq >>
sideVars == << eng, paths, xf, vt, sched >>
auxVars == << cli, zipreq, xp, par, sideVars >>
expVars == << export_dir, csv, states, sIdx, industry_level_row_counts,
              total_rows_exported, exportNo, entriesAtExport >>
valVars == << verdict, compared >>
vars == << pc, popVars, dbVars, expVars, valVars, selInput, auxVars >>

ZeroCounts == [ l \in Range(industry_levels) |-> 0 ]

\* no command, per-ZIP request, interruptible export or worker export is under way
\* no pair of engines, entry path, failing export, failing validation or gap
\* detection is under way
SideIdle ==
    /\ eng = [ at |-> "none" ]
    /\ paths = [ at |-> "none" ]
    /\ xf = [ at |-> "none" ]
    /\ vt = [ at |-> "none" ]
    /\ sched = [ at |-> "none" ]

AuxIdle ==
    /\ cli = [ at |-> "none" ]
    /\ zipreq = [ at |-> "none" ]
    /\ xp = [ at |-> "none" ]
    /\ par = [ at |-> "none" ]
    /\ SideIdle

Init ==
    /\ pc = "idle"
    /\ zp = FALSE
    /\ failed_attempts = {}
    /\ dbExists = FALSE
    /\ DimZipCode = {}
    /\ DimYear = {}
    /\ DataEntry = {}
    /\ entryid_seq = 0
    /\ idx = 0
    /\ industry = ""
    /\ sector = ""
    /\ attempt = 0
    /\ url = build_url("", TargetYear)
    /\ data = <<>>
    /\ hist = <<>>
    /\ slept = <<>>
    /\ answer = <<>>
    /\ existedAtStart = FALSE
    /\ runNo = 0
    /\ entriesAtRunStart = {}
    /\ export_dir = <<>>
    /\ csv = <<>>
    /\ states = <<>>
    /\ sIdx = 0
    /\ industry_level_row_counts = ZeroCounts
    /\ total_rows_exported = 0
    /\ exportNo = 0
    /\ entriesAtExport = {}
    /\ verdict = "none"
    /\ compared = <<>>
    /\ DimNaics = <<>>
    /\ geo_fetch = FALSE
    /\ outcomes = <<>>
    /\ batches = <<>>
    /\ store_error = FALSE
    /\ AuxIdle
    /\ selInput = [ year |-> TargetYear, startyear |-> FirstZbpYear, endyear |-> CurrentYear - 1 ]

\* no store, no populator, no export and no validation yet
Quiescent ==
    /\ zp = FALSE
    /\ failed_attempts = {}
    /\ dbExists = FALSE
    /\ DimZipCode = {}
    /\ DimYear = {}
    /\ DimNaics = <<>>
    /\ DataEntry = {}
    /\ entryid_seq = 0
    /\ idx = 0
    /\ industry = ""
    /\ sector = ""
    /\ attempt = 0
    /\ url = build_url("", TargetYear)
    /\ data = <<>>
    /\ hist = <<>>
    /\ slept = <<>>
    /\ answer = <<>>
    /\ existedAtStart = FALSE
    /\ runNo = 0
    /\ entriesAtRunStart = {}
    /\ geo_fetch = FALSE
    /\ outcomes = <<>>
    /\ batches = <<>>
    /\ store_error = FALSE
    /\ export_dir = <<>>
    /\ csv = <<>>
    /\ states = <<>>
    /\ sIdx = 0
    /\ industry_level_row_counts = ZeroCounts
    /\ total_rows_exported = 0
    /\ exportNo = 0
    /\ entriesAtExport = {}
    /\ verdict = "none"
    /\ compared = <<>>

\* whether the store holds a row of the (year, industry) pair: the reading
\* of the history variables and of the properties below
HasRows(entries, year, code) ==
    { e \in entries : e.Year = year /\ e.NaicsCode = code } # {}

(***************************************************************************)
(* Population Engine (ZipPopulator).                                       *)
(***************************************************************************)
\* ZipPopulator.__init__: a fresh instance, with no failed attempt
NewZipPopulator ==
    /\ pc = "idle"
    /\ runNo < MaxRuns
    /\ zp' = TRUE
    /\ failed_attempts' = {}
    /\ UNCHANGED << pc, idx, industry, sector, attempt, url, data, hist, slept, answer,
                    existedAtStart, runNo, entriesAtRunStart, geo_fetch, outcomes,
                    batches, store_error, dbVars, expVars, valVars, selInput, auxVars >>

\* get_zip_for_year up to its loop: the store is opened (DatabasePopulator
\* .__enter__ creates the tables and fills the empty dimension tables)
GetZipForYear ==
    /\ pc = "idle"
    /\ zp
    /\ runNo < MaxRuns
    /\ IF data_exists(Cardinality(DimZipCode))
       THEN /\ DimZipCode' = populate_dim_zipcode(DimZipCode, {})
            /\ geo_fetch' = FALSE
       ELSE /\ \E unique_zip_code_data \in SUBSET LabelUniverse :
                  DimZipCode' = populate_dim_zipcode(DimZipCode, unique_zip_code_data)
            /\ geo_fetch' = TRUE
    /\ DimNaics' = populate_naics(DimNaics)
    /\ DimYear' = populate_year(DimYear, selInput.startyear, selInput.endyear)
    /\ dbExists' = TRUE
    /\ runNo' = runNo + 1
    /\ entriesAtRunStart' = DataEntry
    /\ idx' = 1
    /\ outcomes' = <<>>
    /\ store_error' = FALSE
    /\ pc' = "loop"
    /\ UNCHANGED << zp, failed_attempts, industry, sector, attempt, url, data, hist, slept,
                    answer, existedAtStart, batches, DataEntry, entryid_seq, expVars,
                    valVars, selInput, auxVars >>

\* the failed-attempts test with the key built as (str(year), year)
previously_failed_other_key(failed, ind, year) ==
    \E f \in failed : f[1] = IntToStr(year) /\ f[2] = year /\ ind = f[1]

\* the failed-attempts test of _get_zip_and_year_help
previously_failed(failed, ind, year) == <<ind, year>> \in failed

\* the loop body of get_zip_for_year: _get_zip_and_year_help(industry, year)
\* up to its call of _get_response_data
BeginPair ==
    /\ pc = "loop"
    /\ idx <= Len(filtered_industries)
    /\ industry' = filtered_industries[idx]
    /\ hist' = <<>>
    /\ slept' = <<>>
    /\ answer' = <<>>
    /\ data' = <<>>
    /\ existedAtStart' = HasRows(DataEntry, TargetYear, filtered_industries[idx])
    /\ batches' = <<>>
    /\ IF previously_failed(failed_attempts, filtered_industries[idx], TargetYear)
       THEN /\ idx' = idx + 1
            /\ pc' = "loop"
            /\ outcomes' = Append(outcomes, "skipped")
            /\ UNCHANGED << sector, attempt >>
       ELSE /\ sector' = filtered_industries[idx]
            /\ attempt' = 1
            /\ pc' = "response"
            /\ idx' = idx
            /\ UNCHANGED outcomes
    /\ UNCHANGED << zp, failed_attempts, url, runNo, entriesAtRunStart, geo_fetch,
                    store_error, dbVars, expVars, valVars, selInput, auxVars >>

\* the head of _get_response_data: the existence check; 304 ends the pair
ExistsCheck ==
    /\ pc = "response"
    /\ IF data_for_year_and_sector_exists(DataEntry, TargetYear, sector)
       THEN /\ idx' = idx + 1
            /\ pc' = "loop"
            /\ outcomes' = Append(outcomes, "skipped")
       ELSE /\ pc' = "request"
            /\ idx' = idx
            /\ UNCHANGED outcomes
    /\ UNCHANGED << zp, failed_attempts, industry, sector, attempt, url, data, hist, slept,
                    answer, existedAtStart, runNo, entriesAtRunStart, geo_fetch, batches,
                    store_error, dbVars, expVars, valVars, selInput, auxVars >>

\* a wait that grows by two seconds with every attempt
backoff_linear(att) == 2 * att

\* "sleep_time = (2 ** attempt)": the seconds slept before the retry that
\* follows attempt att
backoff(att) == 2 ^ att

\* the retry test with a strict comparison
retry_allowed_strict(att) == att < MaxRetryAttempt

\* whether a rate-limited request is tried again
retry_allowed(att) == att <= MaxRetryAttempt

\* the status _get_zip_and_year_help returns on at once: the 304 that
\* _get_response_data makes up for a pair whose rows exist, and the 304 of
\* the API, which comes back through the same return value
is_skip_status(status_code) == status_code = 304

\* the status _get_zip_and_year_help records as a failed attempt
is_failure_status(status_code) == status_code = 204 \/ status_code # 200

\* the place in the industry list the run is at after a failed pair, were
\* the failure to end the run
after_failure_abort(i) == Len(filtered_industries) + 1

\* the place in the industry list the run is at after a failed pair:
\* _get_zip_and_year_help returns and the loop goes on
after_failure(i) == i + 1

\* the request of _get_response_data and the handling of its answer, the
\* API answering with one of `statuses`
Request(statuses) ==
    /\ pc = "request"
    /\ url' = build_url(sector, TargetYear)
    /\ \E status_code \in statuses :
          /\ hist' = Append(hist, status_code)
          /\ slept' = IF status_code = 429 /\ retry_allowed(attempt)
                       THEN Append(slept, backoff(attempt)) ELSE slept
          /\ IF status_code = 429 /\ retry_allowed(attempt)
             THEN /\ attempt' = attempt + 1
                  /\ sector' = standardize_sector(sector)
                  /\ pc' = "response"
                  /\ UNCHANGED << idx, failed_attempts, data, answer, outcomes >>
             ELSE IF is_skip_status(status_code)
             THEN /\ idx' = idx + 1
                  /\ pc' = "loop"
                  /\ outcomes' = Append(outcomes, "skipped")
                  /\ UNCHANGED << failed_attempts, attempt, sector, data, answer >>
             ELSE IF is_failure_status(status_code)
             THEN /\ failed_attempts' = failed_attempts \cup { <<industry, TargetYear>> }
                  /\ idx' = after_failure(idx)
                  /\ pc' = "loop"
                  /\ outcomes' = Append(outcomes, "failed")
                  /\ UNCHANGED << attempt, sector, data, answer >>
             ELSE /\ \E body \in ApiBodies(url') :
                        /\ data' = Tail(body)
                        /\ answer' = Tail(body)
                  /\ pc' = "insert"
                  /\ UNCHANGED << idx, failed_attempts, attempt, sector, outcomes >>
    /\ UNCHANGED << zp, industry, existedAtStart, runNo, entriesAtRunStart, geo_fetch,
                    batches, store_error, dbVars, expVars, valVars, selInput, auxVars >>

\* a request to an API that may rate-limit
HttpRequest == Request(Statuses)

\* a request to an API that does not rate-limit
HttpRequestUnlimited == Request(Statuses \ { 429 })

\* the rows of a batch: naics_code = str(line[1]).strip(), _create_row
batch_rows(lines, year) == [ i \in DOMAIN lines |-> create_row(lines[i][2], lines[i], year) ]

\* the flush test with a strict comparison
batch_is_full_late(buffered) == buffered > BatchSize

\* "if len(batch_data) >= 1000": whether a buffer of so many rows is flushed
batch_is_full(buffered) == buffered >= BatchSize

\* the number of lines the row loop has appended to batch_data when it next
\* calls insert_data_entries: up to the first flush, or all that are left
next_batch_len(lines) ==
    IF \E k \in 1..Len(lines) : batch_is_full(k)
    THEN CHOOSE k \in 1..Len(lines) :
            batch_is_full(k) /\ \A j \in 1..(k - 1) : ~batch_is_full(j)
    ELSE Len(lines)

\* the row loop of _get_zip_and_year_help, one step per insert_data_entries
\* call (a flush inside the loop, then the flush of what is left), and a last
\* step without a call when nothing is left.  With `fault` the bulk load
\* fails with a duckdb.Error, at nextval or at COPY: insert_data_entries
\* prints it and returns.
InsertBatch(fault) ==
    /\ pc = "insert"
    /\ LET n == next_batch_len(data)
           rows == batch_rows(SubSeq(data, 1, n), TargetYear)
           in_loop == n >= 1 /\ batch_is_full(n)
       IN  /\ data' = SubSeq(data, n + 1, Len(data))
           /\ IF n = 0
              THEN /\ ~fault
                   /\ UNCHANGED << DataEntry, entryid_seq, batches, store_error >>
              ELSE /\ batches' = Append(batches, rows)
                   /\ IF fault
                      THEN /\ DataEntry' = DataEntry
                           /\ entryid_seq' \in { entryid_seq, entryid_seq + n }
                           /\ store_error' = TRUE
                      ELSE /\ DataEntry' = insert_data_entries(DataEntry, entryid_seq + 1, rows)
                           /\ entryid_seq' = entryid_seq + n
                           /\ UNCHANGED store_error
           /\ IF in_loop
              THEN UNCHANGED << pc, idx, outcomes >>
              ELSE /\ idx' = idx + 1
                   /\ pc' = "loop"
                   /\ outcomes' = Append(outcomes, "inserted")
    /\ UNCHANGED << zp, failed_attempts, industry, sector, attempt, url, hist, slept, answer,
                    existedAtStart, runNo, entriesAtRunStart, geo_fetch, dbExists,
                    DimZipCode, DimYear, DimNaics, expVars, valVars, selInput, auxVars >>

\* the rows of the answer are loaded
InsertRows == InsertBatch(FALSE)

\* a bulk load fails, once in a run
InsertFault == ~store_error /\ InsertBatch(TRUE)

\* the end of the loop of get_zip_for_year: the store is closed
EndRun ==
    /\ pc = "loop"
    /\ idx > Len(filtered_industries)
    /\ pc' = "idle"
    /\ idx' = 0
    /\ industry' = ""
    /\ sector' = ""
    /\ attempt' = 0
    /\ url' = build_url("", TargetYear)
    /\ hist' = <<>>
    /\ slept' = <<>>
    /\ answer' = <<>>
    /\ existedAtStart' = FALSE
    /\ entriesAtRunStart' = {}
    /\ geo_fetch' = FALSE
    /\ outcomes' = <<>>
    /\ batches' = <<>>
    /\ store_error' = FALSE
    /\ UNCHANGED << zp, failed_attempts, data, runNo, dbVars, expVars, valVars, selInput,
                    auxVars >>

(***************************************************************************)
(* Export Engine (DataExporter of duck_db_exporter.py).                    *)
(***************************************************************************)
\* DataExporter._fetch_states: SELECT DISTINCT State FROM DimZipCode, in a
\* fixed order of enumeration
fetch_states(dim) == CHOOSE s \in Perms({ z.State : z \in dim }) : TRUE

\* DataExporter._fetch_zipcodes_for_state
fetch_zipcodes_for_state(dim, state) == { z.GeoID : z \in { d \in dim : d.State = state } }

\* the directory name and the ZIP codes make_csv uses for a state
state_name(state) == IF state = Null THEN "NotSpecified" ELSE state
state_zipcodes(dim, state) ==
    IF state = Null THEN { SentinelGeoID } ELSE fetch_zipcodes_for_state(dim, state)

\* the SELECT list of data_query
csv_row(e) ==
    [ Zipcode |-> e.GeoID, NaicsCode |-> e.NaicsCode, Establishments |-> e.Establishments,
      Employees |-> e.Employees, Payroll |-> e.Payroll ]

\* the WHERE clause of data_query
query_matches(entries, zipcodes, year, level) ==
    { e \in entries : e.GeoID \in zipcodes /\ e.Year = year /\ e.IndustryLevel = level }

\* the result without the ORDER BY clause: the rows in insertion order
query_orders_unordered(matching) ==
    { s \in Perms(matching) : \A i \in 1..(Len(s) - 1) : s[i].EntryID <= s[i + 1].EntryID }

\* the ORDER BY clause of data_query: the orders a result may come in
query_orders(matching) ==
    { s \in Perms(matching) : \A i \in 1..(Len(s) - 1) : s[i].GeoID <= s[i + 1].GeoID }

\* the frames data_query may return
data_query(entries, zipcodes, year, level) ==
    { [ i \in DOMAIN s |-> csv_row(s[i]) ] :
        s \in query_orders(query_matches(entries, zipcodes, year, level)) }

\* one frame per industry level for a state
state_frames(entries, zipcodes, year) ==
    LET levels == Range(industry_levels)
        all == UNION { data_query(entries, zipcodes, year, l) : l \in levels }
    IN  { f \in [ levels -> all ] :
            \A l \in levels : f[l] \in data_query(entries, zipcodes, year, l) }

\* results.to_csv(filepath): the file is created or replaced
write_csv(files, file, rows) ==
    [ f \in DOMAIN files \cup { file } |-> IF f = file THEN rows ELSE files[f] ]

RECURSIVE write_state(_, _, _, _, _)
\* the level loop of make_csv for one state: one file per level
write_state(files, dir, state, frames, levels) ==
    IF levels = <<>> THEN files
    ELSE write_state(write_csv(files, csv_file(dir, state, Head(levels), TargetYear),
                               frames[Head(levels)]),
                     dir, state, frames, Tail(levels))

RECURSIVE sum_levels(_, _)
sum_levels(frames, levels) ==
    IF levels = <<>> THEN 0
    ELSE Len(frames[Head(levels)]) + sum_levels(frames, Tail(levels))

\* DataExporter(export_dir=...).make_csv() up to its loop: the states are
\* enumerated, the counters reset; a deployment exports either with the
\* default export_dir or with the one of the export command, every time
MakeCsv ==
    /\ pc = "idle"
    /\ dbExists
    /\ exportNo < MaxExports
    /\ exportNo' = exportNo + 1
    /\ export_dir' \in IF exportNo = 0 THEN { DefaultExportDir, CommandExportDir }
                                    ELSE { export_dir }
    /\ states' = fetch_states(DimZipCode)
    /\ sIdx' = 1
    /\ industry_level_row_counts' = ZeroCounts
    /\ total_rows_exported' = 0
    /\ entriesAtExport' = DataEntry
    /\ pc' = "export"
    /\ UNCHANGED << popVars, dbVars, csv, valVars, selInput, auxVars >>

\* one turn of the state loop of make_csv: the state's files, level by level
ExportState ==
    /\ pc = "export"
    /\ sIdx <= Len(states)
    /\ sIdx' = sIdx + 1
    /\ LET state == states[sIdx]
           zipcodes == state_zipcodes(DimZipCode, state)
       IN  IF zipcodes = {}
           THEN UNCHANGED << csv, industry_level_row_counts, total_rows_exported >>
           ELSE \E frames \in state_frames(DataEntry, zipcodes, TargetYear) :
                   /\ csv' = write_state(csv, absolute_export_dir(export_dir),
                                         state_name(state), frames, industry_levels)
                   /\ industry_level_row_counts' =
                         [ l \in Range(industry_levels) |->
                             industry_level_row_counts[l] + Len(frames[l]) ]
                   /\ total_rows_exported' =
                         total_rows_exported + sum_levels(frames, industry_levels)
    /\ UNCHANGED << pc, popVars, dbVars, export_dir, states, exportNo, entriesAtExport,
                    valVars, selInput, auxVars >>

\* the end of make_csv: the totals are returned
ExportDone ==
    /\ pc = "export"
    /\ sIdx > Len(states)
    /\ pc' = "idle"
    /\ sIdx' = 0
    /\ UNCHANGED << popVars, dbVars, export_dir, csv, states, industry_level_row_counts,
                    total_rows_exported, exportNo, entriesAtExport, valVars, selInput, auxVars >>

(***************************************************************************)
(* Validator (DataExporterTest of data_exporter_validation_test.py).       *)
(***************************************************************************)
\* DataExporterTest._count_rows_in_db
count_rows_in_db(entries, dim, state, level) ==
    IF state = Null
    THEN Cardinality({ e \in entries : e.Year = TargetYear /\ e.IndustryLevel = level
                                       /\ e.GeoID = SentinelGeoID })
    ELSE Cardinality({ e \in entries : e.Year = TargetYear /\ e.IndustryLevel = level
                                       /\ e.GeoID \in { d.GeoID : d \in { z \in dim : z.State = state } } })

\* DataExporterTest._count_rows_in_csv: 0 for a file that does not exist
count_rows_in_csv(files, state, level) ==
    LET file == csv_file(validator_export_dir(CommandExportDir), state_name(state),
                         level, TargetYear)
    IN  IF file \notin DOMAIN files THEN 0 ELSE Len(files[file])

\* DataExporterTest._compare_counts
compare_counts(entries, dim, files, state, level) ==
    count_rows_in_db(entries, dim, state, level) = count_rows_in_csv(files, state, level)

\* the (state, level) pairs in the order of the two loops of run_test
test_pairs(state_list, levels) ==
    [ k \in 1..(Len(state_list) * Len(levels)) |->
        << state_list[((k - 1) \div Len(levels)) + 1], levels[((k - 1) % Len(levels)) + 1] >> ]

RECURSIVE run_test_loop_overwrite(_, _, _, _, _, _)
\* the loops with the flag assigned the result of each comparison
run_test_loop_overwrite(entries, dim, files, pairs, all_tests_passed, done) ==
    IF pairs = <<>> THEN [ passed |-> all_tests_passed, compared |-> done ]
    ELSE run_test_loop_overwrite(entries, dim, files, Tail(pairs),
                       compare_counts(entries, dim, files, Head(pairs)[1], Head(pairs)[2]),
                       Append(done, Head(pairs)))

RECURSIVE run_test_loop(_, _, _, _, _, _)
\* the loops of run_test: every pair is compared, a mismatch clears the flag
run_test_loop(entries, dim, files, pairs, all_tests_passed, done) ==
    IF pairs = <<>> THEN [ passed |-> all_tests_passed, compared |-> done ]
    ELSE run_test_loop(entries, dim, files, Tail(pairs),
                       IF ~compare_counts(entries, dim, files, Head(pairs)[1], Head(pairs)[2])
                       THEN FALSE ELSE all_tests_passed,
                       Append(done, Head(pairs)))

\* DataExporterTest.run_test, the last step of the pipeline
RunTest ==
    /\ pc = "idle"
    /\ dbExists
    /\ LET r == run_test_loop(DataEntry, DimZipCode, csv,
                              test_pairs(fetch_states(DimZipCode), industry_levels),
                              TRUE, <<>>)
       IN  /\ verdict' = IF r.passed THEN "pass" ELSE "fail"
           /\ compared' = r.compared
    /\ pc' = "validated"
    /\ UNCHANGED << popVars, dbVars, expVars, selInput, auxVars >>

\* population runs, one at a time, against the year's store
Next ==
    \/ NewZipPopulator
    \/ GetZipForYear
    \/ BeginPair
    \/ ExistsCheck
    \/ HttpRequest
    \/ InsertRows
    \/ EndRun

Spec == Init /\ [][Next]_vars

\* a first run that has just opened its fresh store: get_zip_for_year at
\* the head of its loop
InitRun ==
    /\ pc = "loop"
    /\ zp = TRUE
    /\ failed_attempts = {}
    /\ dbExists = TRUE
    /\ \E unique_zip_code_data \in SUBSET LabelUniverse :
          DimZipCode = populate_dim_zipcode({}, unique_zip_code_data)
    /\ DimNaics = populate_naics(<<>>)
    /\ DimYear = populate_year({}, FirstZbpYear, CurrentYear - 1)
    /\ DataEntry = {}
    /\ entryid_seq = 0
    /\ idx = 1
    /\ industry = ""
    /\ sector = ""
    /\ attempt = 0
    /\ url = build_url("", TargetYear)
    /\ data = <<>>
    /\ hist = <<>>
    /\ slept = <<>>
    /\ answer = <<>>
    /\ existedAtStart = FALSE
    /\ runNo = 1
    /\ entriesAtRunStart = {}
    /\ geo_fetch = TRUE
    /\ outcomes = <<>>
    /\ batches = <<>>
    /\ store_error = FALSE
    /\ export_dir = <<>>
    /\ csv = <<>>
    /\ states = <<>>
    /\ sIdx = 0
    /\ industry_level_row_counts = ZeroCounts
    /\ total_rows_exported = 0
    /\ exportNo = 0
    /\ entriesAtExport = {}
    /\ verdict = "none"
    /\ compared = <<>>
    /\ AuxIdle
    /\ selInput = [ year |-> TargetYear, startyear |-> FirstZbpYear, endyear |-> CurrentYear - 1 ]

\* the steps of one run
NextRun ==
    \/ BeginPair
    \/ ExistsCheck
    \/ HttpRequest
    \/ InsertRows
    \/ EndRun

\* one run of a process that takes its next step whenever it has one: no
\* statement of the run waits for anything but the answer of the API and
\* the sleep before a retry
SpecLive == InitRun /\ [][NextRun]_vars /\ WF_vars(NextRun)

\* population runs in which a bulk load may fail
NextFault ==
    \/ NewZipPopulator
    \/ GetZipForYear
    \/ BeginPair
    \/ ExistsCheck
    \/ HttpRequest
    \/ InsertRows
    \/ InsertFault
    \/ EndRun

SpecFault == Init /\ [][NextFault]_vars

\* the pipeline: population runs, exports and the validation, one command at
\* a time; the API does not rate-limit (a retried request ends as one that
\* was answered at once, so the stores reached are the same)
NextPipeline ==
    \/ NewZipPopulator
    \/ GetZipForYear
    \/ BeginPair
    \/ ExistsCheck
    \/ HttpRequestUnlimited
    \/ InsertRows
    \/ EndRun
    \/ MakeCsv
    \/ ExportState
    \/ ExportDone
    \/ RunTest

SpecPipeline == Init /\ [][NextPipeline]_vars

(***************************************************************************)
(* Selection specification: the request built for any year, and the year   *)
(* table of a store opened with any startyear and endyear.                 *)
(***************************************************************************)
SelYears == YearLo..(YearLo + YearSpan)

InitSel ==
    /\ pc = "select"
    /\ selInput \in [ year : SelYears, startyear : { YearLo, FirstZbpYear },
                      endyear : { FirstZbpYear - 1, YearLo + YearSpan } ]
    /\ zp = FALSE
    /\ failed_attempts = {}
    /\ dbExists = FALSE
    /\ DimZipCode = {}
    /\ DimYear = {}
    /\ DataEntry = {}
    /\ entryid_seq = 0
    /\ idx = 0
    /\ industry = ""
    /\ sector = ""
    /\ attempt = 0
    /\ url = build_url("", TargetYear)
    /\ data = <<>>
    /\ hist = <<>>
    /\ slept = <<>>
    /\ answer = <<>>
    /\ existedAtStart = FALSE
    /\ runNo = 0
    /\ entriesAtRunStart = {}
    /\ export_dir = <<>>
    /\ csv = <<>>
    /\ states = <<>>
    /\ sIdx = 0
    /\ industry_level_row_counts = ZeroCounts
    /\ total_rows_exported = 0
    /\ exportNo = 0
    /\ entriesAtExport = {}
    /\ verdict = "none"
    /\ compared = <<>>
    /\ DimNaics = <<>>
    /\ geo_fetch = FALSE
    /\ outcomes = <<>>
    /\ batches = <<>>
    /\ store_error = FALSE
    /\ AuxIdle

\* DatabasePopulator.__enter__ on a new store: the year table is filled
SelOpenStore ==
    /\ pc = "select"
    /\ ~dbExists
    /\ dbExists' = TRUE
    /\ DimYear' = populate_year(DimYear, selInput.startyear, selInput.endyear)
    /\ UNCHANGED << pc, popVars, DimZipCode, DimNaics, DataEntry, entryid_seq, expVars,
                    valVars, selInput, auxVars >>

\* _get_response_data builds the request of an industry for the year
SelRequest ==
    /\ pc = "select"
    /\ \E s \in Range(filtered_industries) :
          /\ sector' = s
          /\ url' = build_url(s, selInput.year)
    /\ pc' = "requested"
    /\ UNCHANGED << zp, failed_attempts, idx, industry, attempt, data, hist, slept, answer,
                    existedAtStart, runNo, entriesAtRunStart, geo_fetch, outcomes, batches,
                    store_error, dbVars, expVars, valVars, selInput, auxVars >>

NextSel ==
    \/ SelOpenStore
    \/ SelRequest

SpecSel == InitSel /\ [][NextSel]_vars

(***************************************************************************)
(* The commands of .github/scripts: populate_data.py, export_data.py and   *)
(* run_validation_test.py, each called with any argument list.  An         *)
(* argument is the sequence of its characters.                             *)
(***************************************************************************)
\* the least year the commands take
MinYear == 2012
\* number of arguments after the script name
MaxArgs == 2

Commands == { "populate", "export", "validate" }

Digits == { "0", "1", "2", "3", "4", "5", "6", "7", "8", "9" }

DigitValue(c) == CASE c = "0" -> 0 [] c = "1" -> 1 [] c = "2" -> 2 [] c = "3" -> 3
                   [] c = "4" -> 4 [] c = "5" -> 5 [] c = "6" -> 6 [] c = "7" -> 7
                   [] c = "8" -> 8 [] c = "9" -> 9

\* arguments a caller may pass
ArgTokens ==
    { << "2", "0", "1", "1" >>, << "2", "0", "1", "2" >>, << "2", "0", "1", "9" >>,
      << "1", "9", "9", "9" >>, << "9", "9", "9" >>, << "-", "2", "0", "1", "9" >>,
      << "a", "b", "c" >>, << "2", "0", "x", "9" >>, << "2", "0", "1", "9", ".", "5" >>,
      << >> }

\* the argument lists: none, one, or more arguments
ArgLists == UNION { [ 1..n -> ArgTokens ] : n \in 0..MaxArgs }

\* the digits of an argument after its sign
unsigned_part(tok) ==
    IF tok # <<>> /\ Head(tok) \in { "-", "+" } THEN Tail(tok) ELSE tok

\* whether int(tok) returns: a sign at most, then digits only
int_parses(tok) ==
    unsigned_part(tok) # <<>> /\ \A i \in DOMAIN unsigned_part(tok) : unsigned_part(tok)[i] \in Digits

RECURSIVE digits_value(_)
digits_value(ds) ==
    IF ds = <<>> THEN 0
    ELSE 10 * digits_value(SubSeq(ds, 1, Len(ds) - 1)) + DigitValue(ds[Len(ds)])

\* int(tok) of an argument that parses
int_of(tok) ==
    IF tok # <<>> /\ Head(tok) = "-" THEN 0 - digits_value(unsigned_part(tok))
    ELSE digits_value(unsigned_part(tok))

\* the command has ended with a status, having opened the year's store and
\* called the API or not
exited(c, code, store, network) ==
    [ c EXCEPT !.at = "exited", !.exit_code = code, !.store_opened = store,
               !.network_used = network ]

\* populate_data.py: the argument count, int(), the year test, then the
\* population, whose exceptions populate_data_for_year logs
PopulateMain ==
    /\ pc = "cli"
    /\ cli.at = "start"
    /\ cli.command = "populate"
    /\ cli' = IF Len(cli.argv) # 1 THEN exited(cli, 1, FALSE, FALSE)
              ELSE IF ~int_parses(cli.argv[1]) THEN exited(cli, 1, FALSE, FALSE)
              ELSE IF int_of(cli.argv[1]) < MinYear THEN exited(cli, 1, FALSE, FALSE)
              ELSE exited(cli, 0, TRUE, TRUE)
    /\ UNCHANGED << pc, popVars, dbVars, expVars, valVars, selInput, zipreq, xp, par, sideVars >>

\* export_data.py: the argument count, int(), the year test, then the
\* export, whose exceptions export_data_for_year logs; the store is opened
\* read-only, which fails when it does not exist
ExportMain ==
    /\ pc = "cli"
    /\ cli.at = "start"
    /\ cli.command = "export"
    /\ cli' = IF Len(cli.argv) # 1 THEN exited(cli, 1, FALSE, FALSE)
              ELSE IF ~int_parses(cli.argv[1]) THEN exited(cli, 1, FALSE, FALSE)
              ELSE IF int_of(cli.argv[1]) < MinYear THEN exited(cli, 1, FALSE, FALSE)
              ELSE exited(cli, 0, cli.store_exists, FALSE)
    /\ UNCHANGED << pc, popVars, dbVars, expVars, valVars, selInput, zipreq, xp, par, sideVars >>

\* run_validation_test.py: the argument count, int() outside any try, then
\* DataExporterTest(...).run_test() for whatever year was parsed; the store
\* is opened read-only, which raises when it does not exist
ValidateMain ==
    /\ pc = "cli"
    /\ cli.at = "start"
    /\ cli.command = "validate"
    /\ IF Len(cli.argv) # 1 THEN cli' = exited(cli, 1, FALSE, FALSE)
       ELSE IF ~int_parses(cli.argv[1]) THEN cli' = exited(cli, 1, FALSE, FALSE)
       ELSE IF ~cli.store_exists THEN cli' = exited(cli, 1, FALSE, FALSE)
       ELSE \E result \in BOOLEAN :
               cli' = exited(cli, IF result THEN 0 ELSE 1, TRUE, FALSE)
    /\ UNCHANGED << pc, popVars, dbVars, expVars, valVars, selInput, zipreq, xp, par, sideVars >>

InitCli ==
    /\ pc = "cli"
    /\ Quiescent
    /\ selInput = [ year |-> TargetYear, startyear |-> FirstZbpYear, endyear |-> CurrentYear - 1 ]
    /\ cli \in [ at : { "start" }, command : Commands, argv : ArgLists,
                  store_exists : BOOLEAN, exit_code : { 0 }, store_opened : { FALSE },
                  network_used : { FALSE } ]
    /\ zipreq = [ at |-> "none" ]
    /\ xp = [ at |-> "none" ]
    /\ par = [ at |-> "none" ]
    /\ SideIdle

NextCli ==
    \/ PopulateMain
    \/ ExportMain
    \/ ValidateMain

SpecCli == InitCli /\ [][NextCli]_vars

(***************************************************************************)
(* The per-ZIP queries of zip_data/duck_db_manager: DataQueryManager.filter *)
(* and DataExporter.make_csv(zipcode), called with any string.             *)
(***************************************************************************)
\* the length of a ZIP code
ZipLen == 5
\* length of the strings passed as a ZIP code
MaxZipLen == 6

\* the characters of the strings passed as a ZIP code
ZipAlphabet == { "0", "7", "x" }

ZipInputs == UNION { [ 1..n -> ZipAlphabet ] : n \in 0..MaxZipLen }

\* str.isdigit(): a character at least, and digits only
isdigit(str) == str # <<>> /\ \A i \in DOMAIN str : str[i] \in Digits

\* the test of make_csv on the length alone
make_csv_rejects_length_only(zipcode) == Len(zipcode) # ZipLen

\* the test that makes DataQueryManager.filter raise ValueError
filter_rejects(zipcode) == zipcode = <<>> \/ ~isdigit(zipcode) \/ Len(zipcode) # ZipLen

\* the test that makes DataExporter.make_csv raise ValueError
make_csv_rejects(zipcode) == ~(isdigit(zipcode) /\ Len(zipcode) = ZipLen)

\* the call raised ValueError
raised(z) == [ z EXCEPT !.at = "raised", !.error = "ValueError" ]

\* DataQueryManager.filter(zipcode, ...): the test, then the query
Filter ==
    /\ pc = "zip"
    /\ zipreq.at = "start"
    /\ zipreq.op = "filter"
    /\ zipreq' = IF filter_rejects(zipreq.zipcode) THEN raised(zipreq)
                 ELSE [ zipreq EXCEPT !.at = "returned", !.queried = TRUE ]
    /\ UNCHANGED << pc, popVars, dbVars, expVars, valVars, selInput, cli, xp, par, sideVars >>

\* DataExporter.make_csv(zipcode, ...): the test, the nested directory, the
\* connection, filter (which tests again, then queries), the file
MakeCsvZip ==
    /\ pc = "zip"
    /\ zipreq.at = "start"
    /\ zipreq.op = "make_csv"
    /\ zipreq' = IF make_csv_rejects(zipreq.zipcode) THEN raised(zipreq)
                 ELSE IF filter_rejects(zipreq.zipcode)
                 THEN raised([ zipreq EXCEPT !.dir_created = TRUE ])
                 ELSE [ zipreq EXCEPT !.at = "returned", !.dir_created = TRUE,
                                      !.queried = TRUE, !.file_written = TRUE ]
    /\ UNCHANGED << pc, popVars, dbVars, expVars, valVars, selInput, cli, xp, par, sideVars >>

InitZip ==
    /\ pc = "zip"
    /\ Quiescent
    /\ selInput = [ year |-> TargetYear, startyear |-> FirstZbpYear, endyear |-> CurrentYear - 1 ]
    /\ zipreq \in [ at : { "start" }, op : { "filter", "make_csv" }, zipcode : ZipInputs,
                     error : { "none" }, queried : { FALSE }, dir_created : { FALSE },
                     file_written : { FALSE } ]
    /\ cli = [ at |-> "none" ]
    /\ xp = [ at |-> "none" ]
    /\ par = [ at |-> "none" ]
    /\ SideIdle

NextZip ==
    \/ Filter
    \/ MakeCsvZip

SpecZip == InitZip /\ [][NextZip]_vars

(***************************************************************************)
(* An export that an interrupt may reach.  Two engines: the pool of         *)
(* export_geo_year_data (zip_data/duck_db_manager/dataexporter.py), whose   *)
(* units are the (geo_id, year, level) files, and the loop of make_csv      *)
(* (exporter/duck_db_exporter.py) under export_data.py, whose units are the *)
(* (state, level) files.  The interrupt is KeyboardInterrupt raised in the  *)
(* exporting process; the step Interrupt is that raise together with the    *)
(* handling the code gives it.                                              *)
(***************************************************************************)
\* threads=4: the processes of the pool
PoolProcesses == 4
\* number of units of work of an export
MaxUnits == 5

Units == 1..MaxUnits

\* the workers left with their units by a handler that does not terminate
workers_left_running(running) == running

\* the workers holding a unit after Pool.__exit__ and pool.terminate(),
\* pool.join() of the handler
workers_after_terminate(running) == {}

\* the pool hands the next unit of imap to a free worker
PoolDispatch ==
    /\ pc = "cancel"
    /\ xp.at = "running"
    /\ xp.engine = "pool"
    /\ xp.todo # <<>>
    /\ Cardinality(xp.running) < PoolProcesses
    /\ xp' = [ xp EXCEPT !.todo = Tail(xp.todo), !.running = xp.running \cup { Head(xp.todo) } ]
    /\ UNCHANGED << pc, popVars, dbVars, expVars, valVars, selInput, cli, zipreq, par, sideVars >>

\* a worker ends its unit: make_csv has written the file
PoolWorkerDone ==
    /\ pc = "cancel"
    /\ xp.engine = "pool"
    /\ \E u \in xp.running :
          xp' = [ xp EXCEPT !.running = xp.running \ { u }, !.written = xp.written \cup { u } ]
    /\ UNCHANGED << pc, popVars, dbVars, expVars, valVars, selInput, cli, zipreq, par, sideVars >>

\* every result of imap is in: the list of file paths is returned
PoolReturn ==
    /\ pc = "cancel"
    /\ xp.at = "running"
    /\ xp.engine = "pool"
    /\ xp.todo = <<>>
    /\ xp.running = {}
    /\ xp' = [ xp EXCEPT !.at = "returned", !.result = "list" ]
    /\ UNCHANGED << pc, popVars, dbVars, expVars, valVars, selInput, cli, zipreq, par, sideVars >>

\* one turn of the level loop of make_csv: the query and the file
SerialUnit ==
    /\ pc = "cancel"
    /\ xp.at = "running"
    /\ xp.engine = "serial"
    /\ xp.todo # <<>>
    /\ xp' = [ xp EXCEPT !.todo = Tail(xp.todo), !.written = xp.written \cup { Head(xp.todo) } ]
    /\ UNCHANGED << pc, popVars, dbVars, expVars, valVars, selInput, cli, zipreq, par, sideVars >>

\* make_csv returns its counts, export_data.py ends with status 0
SerialReturn ==
    /\ pc = "cancel"
    /\ xp.at = "running"
    /\ xp.engine = "serial"
    /\ xp.todo = <<>>
    /\ xp' = [ xp EXCEPT !.at = "returned", !.result = "counts" ]
    /\ UNCHANGED << pc, popVars, dbVars, expVars, valVars, selInput, cli, zipreq, par, sideVars >>

\* KeyboardInterrupt.  In the pool engine the with block ends (Pool.__exit__
\* terminates the pool), the handler terminates and joins the pool, logs,
\* and the method returns None.  In the loop engine no handler takes it
\* ("except Exception" does not): it leaves make_csv, export_data_for_year
\* and the script, which ends with a traceback.  No file is removed.
Interrupt ==
    /\ pc = "cancel"
    /\ xp.at = "running"
    /\ xp' = IF xp.engine = "pool"
             THEN [ xp EXCEPT !.at = "interrupted",
                              !.running = workers_after_terminate(xp.running),
                              !.terminated = Cardinality(xp.running),
                              !.result = "None",
                              !.log = "Exporting process was interrupted by user." ]
             ELSE [ xp EXCEPT !.at = "interrupted",
                              !.result = "KeyboardInterrupt",
                              !.log = "Traceback: KeyboardInterrupt" ]
    /\ UNCHANGED << pc, popVars, dbVars, expVars, valVars, selInput, cli, zipreq, par, sideVars >>

InitCancel ==
    /\ pc = "cancel"
    /\ Quiescent
    /\ selInput = [ year |-> TargetYear, startyear |-> FirstZbpYear, endyear |-> CurrentYear - 1 ]
    /\ xp \in [ at : { "running" }, engine : { "pool", "serial" },
                 todo : { [ i \in 1..n |-> i ] : n \in 0..MaxUnits },
                 running : { {} }, written : { {} }, terminated : { 0 },
                 result : { "none" }, log : { "" } ]
    /\ cli = [ at |-> "none" ]
    /\ zipreq = [ at |-> "none" ]
    /\ par = [ at |-> "none" ]
    /\ SideIdle

NextCancel ==
    \/ PoolDispatch
    \/ PoolWorkerDone
    \/ PoolReturn
    \/ SerialUnit
    \/ SerialReturn
    \/ Interrupt

SpecCancel == InitCancel /\ [][NextCancel]_vars

(***************************************************************************)
(* An export made by one worker per state: DataExporter.worker(state) of   *)
(* exporter/duck_db_exporter.py called once for every state that           *)
(* _fetch_states enumerates, None among them, on a populated store.  The   *)
(* calls are taken one after the other: which files a call writes and how  *)
(* many rows it counts do not depend on the other calls.                   *)
(***************************************************************************)
\* "states = [state] if state else self._fetch_states()": None and '' are
\* not a state of their own
make_csv_states(dim, state) ==
    IF state # Null /\ state # "" THEN << state >> ELSE fetch_states(dim)

\* the workers are set up: one call per enumerated state
WorkersBegin ==
    /\ pc = "idle"
    /\ dbExists
    /\ runNo >= 1
    /\ pc' = "workers"
    /\ par' = [ at |-> "running", pending |-> { z.State : z \in DimZipCode },
                current |-> "", queue |-> <<>>, wrote |-> {}, sum |-> 0 ]
    /\ UNCHANGED << popVars, dbVars, expVars, valVars, selInput, cli, zipreq, xp, sideVars >>

\* worker(state) starts: make_csv(state) up to its loop
WorkerStart ==
    /\ pc = "workers"
    /\ par.at = "running"
    /\ \E state \in par.pending :
          par' = [ par EXCEPT !.at = "worker", !.pending = par.pending \ { state },
                              !.current = state_name(state),
                              !.queue = make_csv_states(DimZipCode, state) ]
    /\ UNCHANGED << pc, popVars, dbVars, expVars, valVars, selInput, cli, zipreq, xp, sideVars >>

\* one turn of the state loop of the worker's make_csv
WorkerExportState ==
    /\ pc = "workers"
    /\ par.at = "worker"
    /\ par.queue # <<>>
    /\ LET state == Head(par.queue)
           zipcodes == state_zipcodes(DimZipCode, state)
           dir == absolute_export_dir(DefaultExportDir)
       IN  IF zipcodes = {}
           THEN /\ par' = [ par EXCEPT !.queue = Tail(par.queue) ]
                /\ UNCHANGED csv
           ELSE \E frames \in state_frames(DataEntry, zipcodes, TargetYear) :
                   /\ csv' = write_state(csv, dir, state_name(state), frames, industry_levels)
                   /\ par' = [ par EXCEPT
                         !.queue = Tail(par.queue),
                         !.wrote = par.wrote \cup
                             { << csv_file(dir, state_name(state), l, TargetYear), par.current >> :
                                 l \in Range(industry_levels) },
                         !.sum = par.sum + sum_levels(frames, industry_levels) ]
    /\ UNCHANGED << pc, popVars, dbVars, export_dir, states, sIdx, industry_level_row_counts,
                    total_rows_exported, exportNo, entriesAtExport, valVars, selInput,
                    cli, zipreq, xp, sideVars >>

\* the worker's make_csv returns its counts
WorkerEnd ==
    /\ pc = "workers"
    /\ par.at = "worker"
    /\ par.queue = <<>>
    /\ par' = [ par EXCEPT !.at = IF par.pending = {} THEN "done" ELSE "running" ]
    /\ UNCHANGED << pc, popVars, dbVars, expVars, valVars, selInput, cli, zipreq, xp, sideVars >>

\* a population, then the export by workers
NextWorkers ==
    \/ NewZipPopulator
    \/ GetZipForYear
    \/ BeginPair
    \/ ExistsCheck
    \/ HttpRequestUnlimited
    \/ InsertRows
    \/ EndRun
    \/ WorkersBegin
    \/ WorkerStart
    \/ WorkerExportState
    \/ WorkerEnd

SpecWorkers == Init /\ [][NextWorkers]_vars

(***************************************************************************)
(* The row loop on long answers.  A run on a fresh store has reached the   *)
(* pair at place idx of the industry list, the API having answered 404 to  *)
(* the pairs before it, and has just received a 200 answer of n lines, n   *)
(* around the multiples of the batch size.  The API answers 404 to the     *)
(* pairs after it.                                                         *)
(***************************************************************************)
MaxFullBatches == 2
Slack == 3

\* the numbers of data lines of a long answer
BulkLengths ==
    { n \in 0..(MaxFullBatches * BatchSize + Slack) :
        \E k \in 0..MaxFullBatches :
            n + Slack >= k * BatchSize /\ n <= k * BatchSize + Slack }

\* the data lines of a 200 answer that reports the ZIP codes 1..n
BulkLines(n, u) == [ z \in 1..n |-> ApiLine(z, u) ]

\* a request to an API that knows no data for the pair
HttpRequestNotFound == Request({ 404 })

InitBatch ==
    /\ \E i \in 1..Len(filtered_industries), n \in BulkLengths :
          /\ idx = i
          /\ industry = filtered_industries[i]
          /\ sector = filtered_industries[i]
          /\ url = build_url(filtered_industries[i], TargetYear)
          /\ data = BulkLines(n, build_url(filtered_industries[i], TargetYear))
          /\ answer = data
          /\ failed_attempts = { << filtered_industries[j], TargetYear >> : j \in 1..(i - 1) }
          /\ outcomes = [ j \in 1..(i - 1) |-> "failed" ]
    /\ pc = "insert"
    /\ zp = TRUE
    /\ attempt = 1
    /\ hist = << 200 >>
    /\ slept = <<>>
    /\ existedAtStart = FALSE
    /\ runNo = 1
    /\ entriesAtRunStart = {}
    /\ geo_fetch = TRUE
    /\ batches = <<>>
    /\ store_error = FALSE
    /\ dbExists = TRUE
    /\ DimZipCode = populate_dim_zipcode({}, LabelUniverse)
    /\ DimNaics = populate_naics(<<>>)
    /\ DimYear = populate_year({}, FirstZbpYear, CurrentYear - 1)
    /\ DataEntry = {}
    /\ entryid_seq = 0
    /\ export_dir = <<>>
    /\ csv = <<>>
    /\ states = <<>>
    /\ sIdx = 0
    /\ industry_level_row_counts = ZeroCounts
    /\ total_rows_exported = 0
    /\ exportNo = 0
    /\ entriesAtExport = {}
    /\ verdict = "none"
    /\ compared = <<>>
    /\ AuxIdle
    /\ selInput = [ year |-> TargetYear, startyear |-> FirstZbpYear, endyear |-> CurrentYear - 1 ]

NextBatch ==
    \/ InsertRows
    \/ BeginPair
    \/ ExistsCheck
    \/ HttpRequestNotFound
    \/ EndRun

SpecBatch == InitBatch /\ [][NextBatch]_vars

\* the row loop on long answers, a bulk load of the run failing
NextBatchFault ==
    \/ NextBatch
    \/ InsertFault

SpecBatchFault == InitBatch /\ [][NextBatchFault]_vars

(***************************************************************************)
(* Two population engines at work at the same time, as two calls of        *)
(* populate_data.py from the same directory: each ZipPopulator has its own *)
(* failed-attempts set and its own connection, the stores are one file per *)
(* year, and insert_data_entries stages every batch in the one file        *)
(* ../temp/data_entries_temp.csv.  A store is the sequence of the rows     *)
(* loaded into it, so that a row loaded twice is there twice.  The answers *)
(* are short, one batch each.                                              *)
(***************************************************************************)
Engines == { 1, 2 }

\* the years the two engines may be run for
EngineYears == { TargetYear - 1, TargetYear }

\* insert_data_entries up to df.to_csv: the rows with their entry ids
staged_rows(nextid, data_rows) ==
    [ i \in DOMAIN data_rows |->
        [ EntryID |-> nextid + i - 1, GeoID |-> data_rows[i].GeoID,
          NaicsCode |-> data_rows[i].NaicsCode, Year |-> data_rows[i].Year,
          Establishments |-> data_rows[i].Establishments,
          Employees |-> data_rows[i].Employees, Payroll |-> data_rows[i].Payroll,
          IndustryLevel |-> data_rows[i].IndustryLevel ] ]

\* a bulk load into a table that refuses a row whose key it holds already
copy_from_file_unique(table, file) ==
    table \o SelectSeq(file, LAMBDA r :
                 \A i \in DOMAIN table :
                     << table[i].GeoID, table[i].NaicsCode, table[i].Year >>
                         # << r.GeoID, r.NaicsCode, r.Year >>)

\* "COPY DataEntry FROM '../temp/data_entries_temp.csv'": the rows of the
\* file are appended to the table, which has no key
copy_from_file(table, file) == table \o file

\* the engine goes on to the next industry of its list
next_pair(e) ==
    [ eng EXCEPT !.idx[e] = eng.idx[e] + 1,
                 !.pc[e] = IF eng.idx[e] + 1 > Len(filtered_industries) THEN "done" ELSE "check",
                 !.rows[e] = <<>> ]

\* _get_response_data up to the request: the existence check on the store
\* of the engine's year
EngineCheck(e) ==
    /\ pc = "engines"
    /\ eng.pc[e] = "check"
    /\ LET y == eng.year[e]
           sec == filtered_industries[eng.idx[e]]
       IN  IF data_for_year_and_sector_exists(Range(eng.store[y]), y, sec)
           THEN eng' = next_pair(e)
           ELSE eng' = [ eng EXCEPT !.pc[e] = "request",
                                    !.passed = eng.passed \cup { << e, sec >> } ]
    /\ UNCHANGED << popVars, dbVars, expVars, valVars, selInput, cli, zipreq, xp, par,
                    paths, xf, vt, sched, pc >>

\* the request and the answer: a failure ends the pair, and so does an
\* answer without a data line
EngineRequest(e) ==
    /\ pc = "engines"
    /\ eng.pc[e] = "request"
    /\ LET y == eng.year[e]
           u == build_url(filtered_industries[eng.idx[e]], y)
       IN  \E status_code \in { 200, 404 }, n \in 0..MaxRows :
              IF status_code # 200 \/ n = 0
              THEN eng' = next_pair(e)
              ELSE eng' = [ eng EXCEPT !.pc[e] = "stage",
                                       !.rows[e] = batch_rows(BulkLines(n, u), y) ]
    /\ UNCHANGED << popVars, dbVars, expVars, valVars, selInput, cli, zipreq, xp, par,
                    paths, xf, vt, sched, pc >>

\* insert_data_entries up to df.to_csv: ids from the sequence of the store,
\* the batch written over the temporary file
EngineStage(e) ==
    /\ pc = "engines"
    /\ eng.pc[e] = "stage"
    /\ LET y == eng.year[e]
       IN  eng' = [ eng EXCEPT !.pc[e] = "copy",
                               !.tmp = staged_rows(eng.seqno[y] + 1, eng.rows[e]),
                               !.seqno[y] = eng.seqno[y] + Len(eng.rows[e]) ]
    /\ UNCHANGED << popVars, dbVars, expVars, valVars, selInput, cli, zipreq, xp, par,
                    paths, xf, vt, sched, pc >>

\* the COPY of insert_data_entries: what the temporary file holds now goes
\* into the store of the engine's year
EngineCopy(e) ==
    /\ pc = "engines"
    /\ eng.pc[e] = "copy"
    /\ LET y == eng.year[e]
           loaded == [ next_pair(e) EXCEPT
                         !.store[y] = copy_from_file(eng.store[y], eng.tmp) ]
       IN  eng' = [ loaded EXCEPT
                      !.loads = eng.loads \cup
                          { [ by |-> e, into |-> y, fetched |-> eng.rows[e], file |-> eng.tmp ] } ]
    /\ UNCHANGED << popVars, dbVars, expVars, valVars, selInput, cli, zipreq, xp, par,
                    paths, xf, vt, sched, pc >>

InitEngines ==
    /\ pc = "engines"
    /\ Quiescent
    /\ selInput = [ year |-> TargetYear, startyear |-> FirstZbpYear, endyear |-> CurrentYear - 1 ]
    /\ \E y2 \in EngineYears :
          eng = [ at |-> "run", year |-> << TargetYear, y2 >>,
                  pc |-> << "check", "check" >>, idx |-> << 1, 1 >>,
                  rows |-> << <<>>, <<>> >>,
                  store |-> [ y \in EngineYears |-> <<>> ],
                  seqno |-> [ y \in EngineYears |-> 0 ],
                  tmp |-> <<>>, passed |-> {}, loads |-> {} ]
    /\ cli = [ at |-> "none" ]
    /\ zipreq = [ at |-> "none" ]
    /\ xp = [ at |-> "none" ]
    /\ par = [ at |-> "none" ]
    /\ paths = [ at |-> "none" ]
    /\ xf = [ at |-> "none" ]
    /\ vt = [ at |-> "none" ]
    /\ sched = [ at |-> "none" ]

NextEngines ==
    \E e \in Engines :
        \/ EngineCheck(e)
        \/ EngineRequest(e)
        \/ EngineStage(e)
        \/ EngineCopy(e)

SpecEngines == InitEngines /\ [][NextEngines]_vars

(***************************************************************************)
(* The entry paths of the population loop: get_zip_for_year and            *)
(* get_all_zip_zbp of ZipPopulator, each turning the industry list into    *)
(* the codes it calls _get_zip_and_year_help with.  For every code the     *)
(* path records the sector of the existence check, the sector of the       *)
(* request, and the code the rows of the answer are stored under, which is *)
(* the code the API was asked for.  get_all_zip_zbp is taken on an         *)
(* instance whose store has been opened by an earlier get_zip_for_year.    *)
(***************************************************************************)
MaxCodes == 2

EntryPaths == { "get_zip_for_year", "get_all_zip_zbp" }

\* values of the column relevant_naics
CodeValues == { 0, 11, 111, 11111 }

\* values of the constructor argument industry_levels
LevelLists == { << 2, 5, 6 >>, << 1, 2, 5, 6 >>, << 2 >>, << 1 >> }

\* the industry lists: up to MaxCodes codes
CodeLists == UNION { [ 1..n -> CodeValues ] : n \in 0..MaxCodes }

\* get_all_zip_zbp: astype(int).astype(str), nothing replaced
relevant_naics_all(v) == IntToStr(v)

\* the codes an entry path hands to _get_zip_and_year_help
path_codes(entry, list, levels) ==
    IF entry = "get_zip_for_year"
    THEN filter_levels([ i \in DOMAIN list |-> relevant_naics(list[i]) ], levels)
    ELSE filter_levels([ i \in DOMAIN list |-> relevant_naics_all(list[i]) ], levels)

\* the code get_all_zip_zbp calls get_zip_zbp with: "if industry == 0"
\* compares a string with an integer and is never true
zbp_argument(code) == code

\* the entry path builds its list of codes
PathFilter ==
    /\ pc = "paths"
    /\ paths.at = "start"
    /\ paths' = [ paths EXCEPT !.at = "pairs",
                               !.codes = path_codes(paths.entry, paths.list, paths.levels) ]
    /\ UNCHANGED << pc, popVars, dbVars, expVars, valVars, selInput, cli, zipreq, xp, par,
                    eng, xf, vt, sched >>

\* _get_zip_and_year_help for the next code: the existence check is made
\* with the code as passed, the request with the standardized one
PathPair ==
    /\ pc = "paths"
    /\ paths.at = "pairs"
    /\ paths.trail # paths.codes
    /\ LET k == Len(paths.trail) + 1
           industry_arg == IF paths.entry = "get_zip_for_year"
                           THEN paths.codes[k] ELSE zbp_argument(paths.codes[k])
       IN  paths' = [ paths EXCEPT !.trail = Append(paths.trail, paths.codes[k]),
                                   !.pairs = Append(paths.pairs,
                                       [ level |-> Len(paths.codes[k]),
                                         check |-> industry_arg,
                                         request |-> standardize_sector(industry_arg),
                                         stored |-> build_url(standardize_sector(industry_arg),
                                                              TargetYear).sector ]) ]
    /\ UNCHANGED << pc, popVars, dbVars, expVars, valVars, selInput, cli, zipreq, xp, par,
                    eng, xf, vt, sched >>

\* the loop over the codes is over
PathReturn ==
    /\ pc = "paths"
    /\ paths.at = "pairs"
    /\ paths.trail = paths.codes
    /\ paths' = [ paths EXCEPT !.at = "done" ]
    /\ UNCHANGED << pc, popVars, dbVars, expVars, valVars, selInput, cli, zipreq, xp, par,
                    eng, xf, vt, sched >>

InitPaths ==
    /\ pc = "paths"
    /\ Quiescent
    /\ selInput = [ year |-> TargetYear, startyear |-> FirstZbpYear, endyear |-> CurrentYear - 1 ]
    /\ paths \in [ at : { "start" }, entry : EntryPaths, list : CodeLists,
                    levels : LevelLists, codes : { <<>> }, trail : { <<>> }, pairs : { <<>> } ]
    /\ cli = [ at |-> "none" ]
    /\ zipreq = [ at |-> "none" ]
    /\ xp = [ at |-> "none" ]
    /\ par = [ at |-> "none" ]
    /\ eng = [ at |-> "none" ]
    /\ xf = [ at |-> "none" ]
    /\ vt = [ at |-> "none" ]
    /\ sched = [ at |-> "none" ]

NextPaths ==
    \/ PathFilter
    \/ PathPair
    \/ PathReturn

SpecPaths == InitPaths /\ [][NextPaths]_vars

(***************************************************************************)
(* A store after a first run that loaded two rows for industry "00" and    *)
(* got an answer without a data line for "11111": the store that the       *)
(* exports and validations below read.                                     *)
(***************************************************************************)
MaxFaults == 1

PopulatedRows ==
    insert_data_entries({}, 1, batch_rows(BulkLines(2, build_url("00", TargetYear)), TargetYear))

PopulatedStore ==
    /\ zp = TRUE
    /\ failed_attempts = {}
    /\ dbExists = TRUE
    /\ DimZipCode = populate_dim_zipcode({}, LabelUniverse)
    /\ DimNaics = populate_naics(<<>>)
    /\ DimYear = populate_year({}, FirstZbpYear, CurrentYear - 1)
    /\ DataEntry = PopulatedRows
    /\ entryid_seq = 2
    /\ idx = 0
    /\ industry = ""
    /\ sector = ""
    /\ attempt = 0
    /\ url = build_url("", TargetYear)
    /\ data = <<>>
    /\ hist = <<>>
    /\ slept = <<>>
    /\ answer = <<>>
    /\ existedAtStart = FALSE
    /\ runNo = 1
    /\ entriesAtRunStart = {}
    /\ geo_fetch = FALSE
    /\ outcomes = <<>>
    /\ batches = <<>>
    /\ store_error = FALSE
    /\ export_dir = <<>>
    /\ csv = <<>>
    /\ states = <<>>
    /\ sIdx = 0
    /\ industry_level_row_counts = ZeroCounts
    /\ total_rows_exported = 0
    /\ exportNo = 0
    /\ entriesAtExport = {}
    /\ verdict = "none"
    /\ compared = <<>>
    /\ selInput = [ year |-> TargetYear, startyear |-> FirstZbpYear, endyear |-> CurrentYear - 1 ]

\* the (state, level) units of an export or a validation of the store
StoreUnits(dim) == { z.State : z \in dim } \X Range(industry_levels)

(***************************************************************************)
(* An export some of whose reads of the store fail (DataExporter.make_csv  *)
(* of exporter/duck_db_exporter.py).  A fault is a query that raises or a  *)
(* connection that cannot be opened, at the ZIP-code lookup of a state or  *)
(* at the export of a (state, level) unit; which reads fail is fixed when  *)
(* the export begins.                                                      *)
(***************************************************************************)
FaultKinds == { "query", "connect" }

\* the reads of an export that may fail: the lookup of a labelled state
\* (level 0 here) and the data query of a unit
ExportFaultPoints(dim) ==
    { [ kind |-> k, state |-> u[1], level |-> u[2] ] :
        k \in FaultKinds, u \in StoreUnits(dim) }
    \cup { [ kind |-> k, state |-> z.State, level |-> 0 ] :
             k \in FaultKinds, z \in { d \in dim : d.State # Null } }

RECURSIVE FaultPlans(_, _)
\* the sets of at most n of the points
FaultPlans(points, n) ==
    IF n = 0 THEN { {} }
    ELSE FaultPlans(points, n - 1)
         \cup { plan \cup { f } : plan \in FaultPlans(points, n - 1), f \in points }

\* the fault, if any, of the read at (state, level)
fault_at(plan, state, level) ==
    IF \E f \in plan : f.state = state /\ f.level = level
    THEN (CHOOSE f \in plan : f.state = state /\ f.level = level).kind
    ELSE "none"

\* the head of the state loop: the state directory and the ZIP codes of the
\* state.  _fetch_zipcodes_for_state opens its connection outside its try:
\* a failed connection leaves make_csv, a failed query gives no ZIP code
XfState ==
    /\ pc = "xfaults"
    /\ xf.at = "state"
    /\ xf.s <= Len(xf.states)
    /\ LET state == xf.states[xf.s]
           fault == IF state = Null THEN "none" ELSE fault_at(xf.plan, state, 0)
           zipcodes == IF fault = "query" THEN {} ELSE state_zipcodes(DimZipCode, state)
       IN  IF fault = "connect"
           THEN xf' = [ xf EXCEPT !.at = "raised" ]
           ELSE IF zipcodes = {}
           THEN xf' = [ xf EXCEPT !.s = xf.s + 1,
                                  !.log = IF fault = "query"
                                          THEN xf.log \cup { << state, 0 >> } ELSE xf.log ]
           ELSE xf' = [ xf EXCEPT !.at = "levels", !.l = 1, !.zipcodes = zipcodes ]
    /\ UNCHANGED << pc, popVars, dbVars, expVars, valVars, selInput, cli, zipreq, xp, par,
                    eng, paths, vt, sched >>

\* one turn of the level loop: the connection is opened outside the try, the
\* query and the writing of the file inside it
XfUnit ==
    /\ pc = "xfaults"
    /\ xf.at = "levels"
    /\ LET state == xf.states[xf.s]
           level == industry_levels[xf.l]
           fault == fault_at(xf.plan, state, level)
           num_rows == Cardinality(query_matches(DataEntry, xf.zipcodes, TargetYear, level))
           last == xf.l = Len(industry_levels)
           on == [ xf EXCEPT !.l = IF last THEN 0 ELSE xf.l + 1,
                             !.s = IF last THEN xf.s + 1 ELSE xf.s,
                             !.at = IF last THEN "state" ELSE "levels" ]
       IN  IF fault = "connect"
           THEN xf' = [ xf EXCEPT !.at = "raised" ]
           ELSE IF fault = "query"
           THEN xf' = [ on EXCEPT !.log = xf.log \cup { << state, level >> } ]
           ELSE xf' = [ on EXCEPT !.written = xf.written \cup { << state, level >> },
                                  !.counts[level] = xf.counts[level] + num_rows,
                                  !.total = xf.total + num_rows ]
    /\ UNCHANGED << pc, popVars, dbVars, expVars, valVars, selInput, cli, zipreq, xp, par,
                    eng, paths, vt, sched >>

\* the end of make_csv: the totals are logged and returned
XfReturn ==
    /\ pc = "xfaults"
    /\ xf.at = "state"
    /\ xf.s > Len(xf.states)
    /\ xf' = [ xf EXCEPT !.at = "returned" ]
    /\ UNCHANGED << pc, popVars, dbVars, expVars, valVars, selInput, cli, zipreq, xp, par,
                    eng, paths, vt, sched >>

InitXf ==
    /\ pc = "xfaults"
    /\ PopulatedStore
    /\ \E plan \in FaultPlans(ExportFaultPoints(populate_dim_zipcode({}, LabelUniverse)),
                                MaxFaults),
          order \in Perms({ z.State : z \in populate_dim_zipcode({}, LabelUniverse) }) :
          /\ xf = [ at |-> "state", plan |-> plan, states |-> order, s |-> 1, l |-> 0,
                    zipcodes |-> {}, written |-> {}, counts |-> ZeroCounts, total |-> 0,
                    log |-> {} ]
    /\ cli = [ at |-> "none" ]
    /\ zipreq = [ at |-> "none" ]
    /\ xp = [ at |-> "none" ]
    /\ par = [ at |-> "none" ]
    /\ eng = [ at |-> "none" ]
    /\ paths = [ at |-> "none" ]
    /\ vt = [ at |-> "none" ]
    /\ sched = [ at |-> "none" ]

NextXf ==
    \/ XfState
    \/ XfUnit
    \/ XfReturn

SpecXf == InitXf /\ [][NextXf]_vars

(***************************************************************************)
(* A validation some of whose reads fail (DataExporterTest.run_test under  *)
(* run_validation_test.py).  The reads are the enumeration of the states,  *)
(* the count of a unit in the store and the reading of its CSV; a fault is *)
(* a query that raises, a connection that cannot be opened, or a CSV that  *)
(* cannot be read.  The export directory holds either no file or the files *)
(* of a complete export of the store.                                      *)
(***************************************************************************)
\* the files of a complete export, where the validator looks for them
ExportedFiles(entries, dim) ==
    LET units == StoreUnits(dim)
        name(u) == csv_file(validator_export_dir(CommandExportDir), state_name(u[1]),
                            u[2], TargetYear)
    IN  [ f \in { name(u) : u \in units } |->
            LET u == CHOOSE v \in units : name(v) = f
            IN  CHOOSE frame \in data_query(entries, state_zipcodes(dim, u[1]),
                                            TargetYear, u[2]) : TRUE ]

\* the reads of a validation that may fail; the enumeration of the states
\* has no unit (level 0 of the placeholder here)
ValidationFaultPoints(dim) ==
    { [ op |-> "states", kind |-> k, state |-> Null, level |-> 0 ] : k \in FaultKinds }
    \cup { [ op |-> "db", kind |-> k, state |-> u[1], level |-> u[2] ] :
             k \in FaultKinds, u \in StoreUnits(dim) }
    \cup { [ op |-> "csv", kind |-> "read", state |-> u[1], level |-> u[2] ] :
             u \in StoreUnits(dim) }

\* the fault, if any, of the read op at (state, level)
read_fault(plan, op, state, level) ==
    IF \E f \in plan : f.op = op /\ f.state = state /\ f.level = level
    THEN (CHOOSE f \in plan : f.op = op /\ f.state = state /\ f.level = level).kind
    ELSE "none"

\* run_test up to its loops: _fetch_states opens its connection outside its
\* try, so a failed connection ends the command with a traceback; a failed
\* query is logged and gives no state
VtFetchStates ==
    /\ pc = "vfaults"
    /\ vt.at = "states"
    /\ LET fault == read_fault(vt.plan, "states", Null, 0)
           state_list == IF fault = "query" THEN <<>> ELSE fetch_states(DimZipCode)
       IN  IF fault = "connect"
           THEN vt' = [ vt EXCEPT !.at = "raised", !.exit_code = 1 ]
           ELSE vt' = [ vt EXCEPT !.at = "pairs", !.states = state_list,
                                  !.enum_failed = (fault = "query"),
                                  !.pairs = test_pairs(state_list, industry_levels) ]
    /\ UNCHANGED << pc, popVars, dbVars, expVars, valVars, selInput, cli, zipreq, xp, par,
                    eng, paths, xf, sched >>

\* _compare_counts for the next pair: a count that fails is 0
VtCompare ==
    /\ pc = "vfaults"
    /\ vt.at = "pairs"
    /\ vt.pairs # <<>>
    /\ LET state == Head(vt.pairs)[1]
           level == Head(vt.pairs)[2]
           db_fault == read_fault(vt.plan, "db", state, level)
           csv_fault == read_fault(vt.plan, "csv", state, level)
           db_count == IF db_fault = "query" THEN 0
                       ELSE count_rows_in_db(DataEntry, DimZipCode, state, level)
           csv_count == IF csv_fault = "read" THEN 0
                        ELSE count_rows_in_csv(vt.files, state, level)
       IN  IF db_fault = "connect"
           THEN vt' = [ vt EXCEPT !.at = "raised", !.exit_code = 1 ]
           ELSE vt' = [ vt EXCEPT
                          !.pairs = Tail(vt.pairs),
                          !.passed = IF db_count # csv_count THEN FALSE ELSE vt.passed,
                          !.zeroed = vt.zeroed \cup
                              (IF db_fault = "query" \/ csv_fault = "read"
                               THEN { << state, level >> } ELSE {}) ]
    /\ UNCHANGED << pc, popVars, dbVars, expVars, valVars, selInput, cli, zipreq, xp, par,
                    eng, paths, xf, sched >>

\* the end of run_test and of run_validation_test.py
VtDone ==
    /\ pc = "vfaults"
    /\ vt.at = "pairs"
    /\ vt.pairs = <<>>
    /\ vt' = [ vt EXCEPT !.at = "done",
                         !.verdict = IF vt.passed THEN "pass" ELSE "fail",
                         !.exit_code = IF vt.passed THEN 0 ELSE 1 ]
    /\ UNCHANGED << pc, popVars, dbVars, expVars, valVars, selInput, cli, zipreq, xp, par,
                    eng, paths, xf, sched >>

InitVt ==
    /\ pc = "vfaults"
    /\ PopulatedStore
    /\ \E plan \in FaultPlans(ValidationFaultPoints(populate_dim_zipcode({}, LabelUniverse)),
                                MaxFaults),
          files \in { <<>>, ExportedFiles(PopulatedRows,
                                          populate_dim_zipcode({}, LabelUniverse)) } :
          /\ vt = [ at |-> "states", plan |-> plan, files |-> files, states |-> <<>>,
                    pairs |-> <<>>, passed |-> TRUE, enum_failed |-> FALSE, zeroed |-> {},
                    verdict |-> "none", exit_code |-> 0 ]
    /\ cli = [ at |-> "none" ]
    /\ zipreq = [ at |-> "none" ]
    /\ xp = [ at |-> "none" ]
    /\ par = [ at |-> "none" ]
    /\ eng = [ at |-> "none" ]
    /\ paths = [ at |-> "none" ]
    /\ xf = [ at |-> "none" ]
    /\ sched = [ at |-> "none" ]

NextVt ==
    \/ VtFetchStates
    \/ VtCompare
    \/ VtDone

SpecVt == InitVt /\ [][NextVt]_vars

(***************************************************************************)
(* The gap detection of .github/scripts/check_for_updates.py, run in a     *)
(* year `now` with the latest local store of year `local`.  The loop of    *)
(* fetch_latest_year_from_api counts the year down without a lower bound;  *)
(* check_data_exists answers False to every year below 2012 without a      *)
(* request, so the years from YearFloor down stand for each other and the  *)
(* count-down is kept at YearFloor; `turn` is the parity of the number of  *)
(* tests the loop has made.                                                *)
(***************************************************************************)
NowSpan == 4
FloorDepth == 2

YearFloor == MinYear - FloorDepth

\* the years the detection may be run in
NowYears == (MinYear - 1)..(MinYear + NowSpan)

\* the latest year check_local_years may find: 2012 when there is no store
LocalYears == MinYear..(MinYear + NowSpan)

\* the status codes a request of check_data_exists may be answered with
CheckAnswers == { 200, 204, 404, 500 }

\* whether check_data_exists makes a request for the year
check_makes_request(year) == year >= MinYear

\* check_data_exists, given how its request ends: in a RequestException
\* (request_failed) or in an answer with a status code
check_data_exists(year, request_failed, status_code) ==
    check_makes_request(year) /\ ~request_failed /\ status_code \in { 200, 204 }

\* find_gap_years
find_gap_years(latest_year_local, latest_year_remote) ==
    [ k \in 1..(latest_year_remote - latest_year_local) |-> latest_year_local + k ]

\* fetch_latest_year_from_api up to its loop
SchedStart ==
    /\ pc = "sched"
    /\ sched.at = "start"
    /\ IF sched.now < MinYear
       THEN sched' = [ sched EXCEPT !.at = "raised" ]
       ELSE sched' = [ sched EXCEPT !.at = "loop", !.year = sched.now ]
    /\ UNCHANGED << pc, popVars, dbVars, expVars, valVars, selInput, cli, zipreq, xp, par,
                    eng, paths, xf, vt >>

\* one test of the while loop: check_data_exists(latest_year_remote), and
\* the decrement when it is False
SchedCheck ==
    /\ pc = "sched"
    /\ sched.at = "loop"
    /\ \E request_failed \in BOOLEAN, status_code \in CheckAnswers :
          LET asked == check_makes_request(sched.year)
          IN  IF check_data_exists(sched.year, request_failed, status_code)
              THEN sched' = [ sched EXCEPT !.at = "returned",
                                           !.turn = 1 - sched.turn,
                                           !.requests = sched.requests + 1 ]
              ELSE sched' = [ sched EXCEPT
                                !.turn = 1 - sched.turn,
                                !.year = IF sched.year > YearFloor
                                         THEN sched.year - 1 ELSE YearFloor,
                                !.requests = IF asked THEN sched.requests + 1
                                             ELSE sched.requests ]
    /\ UNCHANGED << pc, popVars, dbVars, expVars, valVars, selInput, cli, zipreq, xp, par,
                    eng, paths, xf, vt >>

\* __main__ after the fetch: check_local_years and find_gap_years
SchedGaps ==
    /\ pc = "sched"
    /\ sched.at = "returned"
    /\ sched' = [ sched EXCEPT !.at = "printed",
                               !.gap_years = find_gap_years(sched.local, sched.year) ]
    /\ UNCHANGED << pc, popVars, dbVars, expVars, valVars, selInput, cli, zipreq, xp, par,
                    eng, paths, xf, vt >>

InitSched ==
    /\ pc = "sched"
    /\ Quiescent
    /\ selInput = [ year |-> TargetYear, startyear |-> FirstZbpYear, endyear |-> CurrentYear - 1 ]
    /\ sched \in [ at : { "start" }, now : NowYears, local : LocalYears, year : { 0 },
                    requests : { 0 }, turn : { 0 }, gap_years : { <<>> } ]
    /\ cli = [ at |-> "none" ]
    /\ zipreq = [ at |-> "none" ]
    /\ xp = [ at |-> "none" ]
    /\ par = [ at |-> "none" ]
    /\ eng = [ at |-> "none" ]
    /\ paths = [ at |-> "none" ]
    /\ xf = [ at |-> "none" ]
    /\ vt = [ at |-> "none" ]

NextSched ==
    \/ SchedStart
    \/ SchedCheck
    \/ SchedGaps

\* the script takes its next step whenever it has one
SpecSched == InitSched /\ [][NextSched]_vars /\ WF_vars(NextSched)

(***************************************************************************)
(* Properties.                                                             *)
(***************************************************************************)
RunFinished == pc = "loop" /\ idx > Len(filtered_industries)
InRun == pc \in { "loop", "response", "request", "insert" }
AllPairsHadRows ==
    \A i \in Range(filtered_industries) : HasRows(entriesAtRunStart, TargetYear, i)

\* C1 as stated: at the end of a second (or later) run the store holds the
\* rows it held when that run started, whatever the API answered.
C1_SecondRunChangesNothing ==
    (RunFinished /\ runNo >= 2) => DataEntry = entriesAtRunStart

\* C1 amended: in a second (or later) run every row added belongs to a pair
\* that had no row when the run started; and when every pair of the filtered
\* list had rows at the start, the run issues no request, inserts nothing
\* and leaves the store as the first run left it.
C1_IdempotentOnStoredPairs ==
    (InRun /\ runNo >= 2) =>
        /\ \A e \in DataEntry \ entriesAtRunStart :
              ~HasRows(entriesAtRunStart, TargetYear, e.NaicsCode)
        /\ entriesAtRunStart \subseteq DataEntry
        /\ AllPairsHadRows =>
              /\ DataEntry = entriesAtRunStart
              /\ hist = <<>>
              /\ pc \notin { "request", "insert" }

\* a second run has ended on a store in which every pair had rows
C1_Witness ==
    /\ RunFinished
    /\ runNo = 2
    /\ AllPairsHadRows
    /\ DataEntry = entriesAtRunStart

\* C2: no two rows of DataEntry share (GeoID, NaicsCode, Year), after any
\* number of runs made one at a time.
C2_FactUniqueness ==
    \A e1, e2 \in DataEntry :
        (e1.GeoID = e2.GeoID /\ e1.NaicsCode = e2.NaicsCode /\ e1.Year = e2.Year)
            => e1 = e2

\* a second run met a pair whose rows the first run had stored, and a pair
\* it had to fetch
C2_Witness ==
    /\ RunFinished
    /\ runNo = 2
    /\ existedAtStart
    /\ entriesAtRunStart # {}
    /\ DataEntry # entriesAtRunStart

ExportComplete == pc \in { "idle", "validated" } /\ exportNo >= 1
NoMutationSinceExport == entriesAtExport = DataEntry

\* C3: after a full export of a year with rows, the rows counted over all
\* the exported files are as many as the fact rows of the year.
C3_PartitionComplete ==
    (ExportComplete /\ NoMutationSinceExport /\ DataEntry # {}) =>
        total_rows_exported = Cardinality({ e \in DataEntry : e.Year = TargetYear })

\* C4: populate, export, validate with no insertion after the export: the
\* validator passes.
C4_RoundTripPasses ==
    (pc = "validated" /\ exportNo >= 1 /\ NoMutationSinceExport) => verdict = "pass"

Five429 == <<429, 429, 429, 429, 429>>

\* the rows of the answer are in the store
AnswerStored ==
    \A i \in DOMAIN answer :
        \E e \in DataEntry :
            /\ e.GeoID = answer[i][1] /\ e.NaicsCode = answer[i][2]
            /\ e.Year = TargetYear /\ e.Establishments = answer[i][3]
            /\ e.Employees = answer[i][4] /\ e.Payroll = answer[i][5]

\* C5: after five 429 answers the pair is asked for a sixth time; five 429
\* then 200 ends with the rows of the answer in the store; six 429 end with
\* no row of the pair in the store and the pair among the failed attempts.
C5_RetryBound ==
    /\ Len(hist) <= 6
    /\ hist = Five429 =>
          /\ pc \in { "response", "request" }
          /\ <<industry, TargetYear>> \notin failed_attempts
    /\ hist = Five429 \o <<200>> =>
          /\ pc \in { "insert", "loop" }
          /\ <<industry, TargetYear>> \notin failed_attempts
          /\ pc = "loop" => AnswerStored
    /\ hist = Five429 \o <<429>> =>
          /\ pc = "loop"
          /\ <<industry, TargetYear>> \in failed_attempts
          /\ ~HasRows(DataEntry, TargetYear, industry)

\* five 429 then a 200 with rows, all stored
C5_Witness ==
    /\ hist = Five429 \o <<200>>
    /\ pc = "loop"
    /\ answer # <<>>
    /\ AnswerStored

\* the revision of the claim's table
ClaimedRevision(year) ==
    CASE year \in 2000..2002 -> "NAICS1997"
      [] year \in 2003..2007 -> "NAICS2002"
      [] year \in 2008..2011 -> "NAICS2007"
      [] year \in 2012..2016 -> "NAICS2012"
      [] OTHER -> "NAICS2017"

\* C6: the request of a year uses zbp for 2012..2018 and cbp after 2018,
\* the revision key of the table, and the year table holds the same
\* revision for that year.
C6_EndpointAndRevision ==
    /\ pc = "requested" =>
          /\ url.year = selInput.year
          /\ (url.year \in 2012..2018) => url.endpoint = "zbp"
          /\ (url.year > 2018) => url.endpoint = "cbp"
          /\ url.code = ClaimedRevision(url.year)
          /\ \A r \in DimYear : r.Year = url.year => r.YearDescription = url.code
    /\ \A r \in DimYear : r.YearDescription = ClaimedRevision(r.Year)
    /\ dbExists => { r.Year : r \in DimYear } = selInput.startyear..selInput.endyear

\* a request for a year of the year table, whose revision is not the default
C6_Witness ==
    /\ pc = "requested"
    /\ url.code = "NAICS2012"
    /\ url.endpoint = "zbp"
    /\ \E r \in DimYear : r.Year = url.year

\* the ZIP codes the geography table gives the state directory `name`
GeoOfDirectory(name) == { z.GeoID : z \in { d \in DimZipCode : state_name(d.State) = name } }

\* the fact rows a file is claimed to hold, as of the export
ClaimedRows(f) ==
    { e \in entriesAtExport :
        /\ e.GeoID \in GeoOfDirectory(f.state)
        /\ e.Year = f.year
        /\ e.IndustryLevel = f.level }

\* the five columns of a fact row
Projected(e) ==
    [ Zipcode |-> e.GeoID, NaicsCode |-> e.NaicsCode, Establishments |-> e.Establishments,
      Employees |-> e.Employees, Payroll |-> e.Payroll ]

\* C7: once an export is complete, its directory holds a file for every
\* state of the geography table and every configured level, and every file
\* of it holds the projection of exactly the fact rows of its state, year
\* and level, in ascending order of ZIP code.
C7_ExportContentAndOrder ==
    ExportComplete =>
        /\ \A st \in { z.State : z \in DimZipCode }, l \in Range(industry_levels) :
              csv_file(absolute_export_dir(export_dir), state_name(st), l, TargetYear)
                  \in DOMAIN csv
        /\ \A f \in { g \in DOMAIN csv :
                        g.dir = Append(absolute_export_dir(export_dir), g.state) } :
              /\ f.year = TargetYear
              /\ Len(csv[f]) = Cardinality(ClaimedRows(f))
              /\ { Projected(e) : e \in ClaimedRows(f) } = Range(csv[f])
              /\ \A i \in 1..(Len(csv[f]) - 1) : csv[f][i].Zipcode <= csv[f][i + 1].Zipcode

\* a file of two rows whose fact rows were inserted in descending ZIP order,
\* beside fact rows of another level that the file leaves out
C7_Witness ==
    /\ ExportComplete
    /\ \E f \in DOMAIN csv :
          /\ Len(csv[f]) = 2
          /\ csv[f][1].Zipcode < csv[f][2].Zipcode
          /\ \E e1, e2 \in entriesAtExport :
                /\ e1.GeoID = csv[f][1].Zipcode /\ e2.GeoID = csv[f][2].Zipcode
                /\ e1.IndustryLevel = f.level /\ e2.IndustryLevel = f.level
                /\ e1.EntryID > e2.EntryID
          /\ \E e \in entriesAtExport : e.IndustryLevel # f.level

\* every (state, level) pair of the geography table and the configuration
AllTestPairs == { <<st, l>> : st \in { z.State : z \in DimZipCode }, l \in Range(industry_levels) }

CountsAgree(p) ==
    count_rows_in_db(DataEntry, DimZipCode, p[1], p[2]) = count_rows_in_csv(csv, p[1], p[2])

C9_SkipIfExists ==
    /\ pc = "request" => ~HasRows(DataEntry, TargetYear, industry)
    /\ (InRun /\ existedAtStart) =>
          /\ pc \notin { "request", "insert" }
          /\ hist = <<>>
          /\ answer = <<>>

\* a pair with rows in the store was passed over without a request, by a
\* populator that has no failed attempt on record
C9_Witness ==
    /\ pc = "loop"
    /\ idx > 1
    /\ existedAtStart
    /\ hist = <<>>
    /\ failed_attempts = {}

\* C10: a pair among the failed attempts is passed over at once (no store
\* query, no request, no insertion), no pair being processed is among the
\* failed attempts, and during a run the set only grows.
C10_FailedIsTerminal ==
    /\ [](pc \in { "response", "request", "insert" }
            => <<industry, TargetYear>> \notin failed_attempts)
    /\ [][ (pc = "loop" /\ idx <= Len(filtered_industries)
              /\ <<filtered_industries[idx], TargetYear>> \in failed_attempts)
           => (pc' = "loop" /\ idx' = idx + 1 /\ DataEntry' = DataEntry
               /\ hist' = <<>> /\ failed_attempts' = failed_attempts) ]_vars
    /\ [][ pc # "idle" => failed_attempts \subseteq failed_attempts' ]_vars

\* a second run of the same instance passed over a pair the first run had
\* recorded as failed
C10_Witness ==
    /\ pc = "loop"
    /\ runNo = 2
    /\ idx > 1
    /\ <<industry, TargetYear>> \in failed_attempts
    /\ hist = <<>>
    /\ ~existedAtStart

\* the last status received for the pair
LastStatus == hist[Len(hist)]

\* C11: a pair whose request ended with a status other than 200 and 429
\* has no row in the store, leaves nothing to insert and is among the failed
\* attempts.
C11_NoDataStatuses ==
    (pc = "loop" /\ hist # <<>> /\ LastStatus \notin { 200, 429 }) =>
        /\ ~HasRows(DataEntry, TargetYear, industry)
        /\ data = <<>>
        /\ <<industry, TargetYear>> \in failed_attempts

\* C12: once a bulk load of the run has failed, the run inserts no further
\* batch and requests no further pair.
C12_StoreErrorAborts ==
    [][ store_error =>
          /\ DataEntry' = DataEntry
          /\ Len(batches') <= Len(batches)
          /\ Len(hist') <= Len(hist) ]_vars

Outcomes == { "skipped", "inserted", "failed" }

\* C13: the run reaches its end only past the last industry of the filtered
\* list, with one outcome (skipped, inserted or failed) for every industry
\* of the list in order, whichever pairs failed.
C13_FailureDoesNotAbort ==
    /\ [](InRun =>
            /\ Len(outcomes) <= Len(filtered_industries)
            /\ \A i \in DOMAIN outcomes : outcomes[i] \in Outcomes
            /\ pc = "loop" => Len(outcomes) = idx - 1
            /\ pc # "loop" => Len(outcomes) = idx - 1 /\ idx <= Len(filtered_industries))
    /\ [][ (InRun /\ pc' = "idle") => Len(outcomes) = Len(filtered_industries) ]_vars

\* a run whose first pair failed and whose second pair was fetched and stored
C13_Witness ==
    /\ RunFinished
    /\ outcomes = << "failed", "inserted" >>
    /\ filtered_industries[1] \in { f[1] : f \in failed_attempts }
    /\ HasRows(DataEntry, TargetYear, filtered_industries[2])
    /\ ~HasRows(entriesAtRunStart, TargetYear, filtered_industries[2])

\* C14: a store that has been opened holds the placeholder row, with null
\* city and state, and it is the only row of its GeoID with a null state.
C14_SentinelGeography ==
    dbExists =>
        /\ SentinelRow \in DimZipCode
        /\ \A z \in DimZipCode : (z.State = Null \/ z.City = Null) => z = SentinelRow

\* a store opened twice, exported and validated, with labelled ZIP codes
\* beside the placeholder row
C14_Witness ==
    /\ pc = "validated"
    /\ runNo = 2
    /\ exportNo >= 1
    /\ SentinelRow \in DimZipCode
    /\ Cardinality(DimZipCode) >= 3

\* the step that opens the store for a run
OpenStep == pc = "idle" /\ pc' = "loop"

\* C15: an open leaves a non-empty table as it is and fetches no geography
\* for a non-empty geography table; it populates a table that is empty.
C15_BootstrapNoOp ==
    [][ OpenStep =>
          /\ DimZipCode # {} => (DimZipCode' = DimZipCode /\ ~geo_fetch')
          /\ DimZipCode = {} => (DimZipCode' # {} /\ geo_fetch')
          /\ DimNaics # <<>> => DimNaics' = DimNaics
          /\ DimNaics = <<>> => Len(DimNaics') = Len(industry_id_list)
          /\ DimYear # {} => DimYear' = DimYear
          /\ DimYear = {} =>
                { r.Year : r \in DimYear' } = selInput.startyear..selInput.endyear ]_vars

\* a second open of a store whose three tables the first open had filled
C15_Witness ==
    /\ pc = "loop"
    /\ idx = 1
    /\ runNo = 2
    /\ ~geo_fetch
    /\ Cardinality(DimZipCode) >= 2
    /\ Len(DimNaics) = Len(industry_id_list)
    /\ DimYear # {}

\* an argument that spells a year: digits only
SpellsYear(tok) == tok # <<>> /\ \A i \in DOMAIN tok : tok[i] \in Digits

\* the argument lists of the claim: no year, a year that is not a number,
\* a year below 2012
ConfigurationError(argv) ==
    \/ Len(argv) = 0
    \/ Len(argv) = 1 /\ ~SpellsYear(argv[1])
    \/ Len(argv) = 1 /\ SpellsYear(argv[1]) /\ digits_value(argv[1]) < 2012

\* C16: a command called with no year, a non-numeric year or a year below
\* 2012 ends with a non-zero status, without opening a store and without a
\* request to the API.
C16_ConfigErrorsFailFast ==
    (cli.at = "exited" /\ ConfigurationError(cli.argv)) =>
        /\ cli.exit_code # 0
        /\ ~cli.store_opened
        /\ ~cli.network_used

\* five characters, each a digit
FiveDigits(str) == Len(str) = 5 /\ \A i \in 1..5 : str[i] \in Digits

RECURSIVE SerialTotal(_)
\* the rows a serial export of the states of the sequence counts
SerialTotal(state_list) ==
    IF state_list = <<>> THEN 0
    ELSE Cardinality({ e \in DataEntry :
                         /\ e.GeoID \in state_zipcodes(DimZipCode, Head(state_list))
                         /\ e.Year = TargetYear
                         /\ e.IndustryLevel \in Range(industry_levels) })
         + SerialTotal(Tail(state_list))

\* C19: when every state's worker has ended, every file was written by the
\* worker of its own state directory and by no other, and the rows the
\* workers counted add up to the count of a serial export.
C19_OneStatePerWorker ==
    (pc = "workers" /\ par.at = "done") =>
        /\ \A w \in par.wrote : w[1].state = w[2]
        /\ \A w1, w2 \in par.wrote : w1[1] = w2[1] => w1[2] = w2[2]
        /\ par.sum = SerialTotal(fetch_states(DimZipCode))

RECURSIVE Flatten(_)
\* the rows of a sequence of batches, in the order they were handed over
Flatten(bs) == IF bs = <<>> THEN <<>> ELSE Head(bs) \o Flatten(Tail(bs))

\* C20: the batches handed to insert_data_entries and the lines not yet
\* handed over are, in order, the rows of the answer, each once; every
\* batch has between 1 and 1000 rows and every batch but the last exactly
\* 1000; between the pairs and at the end of the run no line is left.
C20_BatchingExact ==
    /\ Flatten(batches) \o batch_rows(data, TargetYear) = batch_rows(answer, TargetYear)
    /\ \A b \in DOMAIN batches :
          /\ Len(batches[b]) >= 1
          /\ Len(batches[b]) <= BatchSize
          /\ b < Len(batches) => Len(batches[b]) = BatchSize
    /\ (pc = "insert" /\ batches # <<>>) => Len(batches[Len(batches)]) = BatchSize
    /\ pc # "insert" => data = <<>>

\* an answer of more than two thousand lines went over in two full batches
\* and a remainder
C20_Witness ==
    /\ pc = "loop"
    /\ Len(batches) = 3
    /\ Len(batches[3]) < BatchSize
    /\ Len(answer) = 2 * BatchSize + Len(batches[3])

\* the (geo_id, naics_code, year) keys of the rows in the store
StoredKeys == { << e.GeoID, e.NaicsCode, e.Year >> : e \in DataEntry }

\* C21: once the row loop of a pair is over, if the existence check is true
\* for the pair then every row of the answer is in the store.
C21_AllOrNothing ==
    LET keys == StoredKeys
    IN  (pc = "loop" /\ answer # <<>>
            /\ data_for_year_and_sector_exists(DataEntry, TargetYear, industry))
        => \A i \in DOMAIN answer : << answer[i][1], answer[i][2], TargetYear >> \in keys

\* two rows of the store of year y have the same (geo_id, naics_code, year)
DuplicateFacts(y) ==
    \E i, j \in DOMAIN eng.store[y] :
        /\ i # j
        /\ eng.store[y][i].GeoID = eng.store[y][j].GeoID
        /\ eng.store[y][i].NaicsCode = eng.store[y][j].NaicsCode
        /\ eng.store[y][i].Year = eng.store[y][j].Year

\* both engines work on the store of the same year
SameStore == eng.year[1] = eng.year[2]

\* C22: on one store, two engines can both have passed the existence check
\* of a pair; nothing stands between a passed check and the load: the COPY
\* of an engine appends the whole temporary file, rows of the pair being in
\* the store or not; and a store comes to hold duplicate facts only where
\* both engines passed the check of one pair.
C22_CheckThenInsertNotAtomic ==
    /\ [](SameStore /\ DuplicateFacts(eng.year[1])
            => \E sec \in Range(filtered_industries) :
                  << 1, sec >> \in eng.passed /\ << 2, sec >> \in eng.passed)
    /\ [][\A e \in Engines :
            (eng.pc[e] = "copy" /\ eng'.pc[e] # "copy")
            => Len(eng'.store[eng.year[e]]) = Len(eng.store[eng.year[e]]) + Len(eng.tmp)]_vars

\* both engines passed the check of a pair before either had loaded, both
\* loaded, and the store holds duplicate facts
C22_Witness ==
    /\ SameStore
    /\ DuplicateFacts(eng.year[1])
    /\ eng.pc = << "done", "done" >>
    /\ \E l1, l2 \in eng.loads : l1.by = 1 /\ l2.by = 2 /\ l1.file # <<>> /\ l2.file # <<>>

\* C23: with the engines on two different years, every row of the store of
\* year Y has year Y, and every batch fetched is loaded, as fetched, into
\* the store of its engine's year.
C23_PerYearIsolation ==
    ~SameStore =>
        /\ \A y \in EngineYears : \A i \in DOMAIN eng.store[y] : eng.store[y][i].Year = y
        /\ \A l \in eng.loads :
              /\ Len(l.file) = Len(l.fetched)
              /\ \A i \in DOMAIN l.file :
                    /\ l.file[i].Year = l.into
                    /\ l.file[i].GeoID = l.fetched[i].GeoID
                    /\ l.file[i].NaicsCode = l.fetched[i].NaicsCode

\* C24: the geography table of an opened store has at most one row per
\* geo_id.
C24_GeoIdUnique ==
    dbExists => \A z1, z2 \in DimZipCode : z1.GeoID = z2.GeoID => z1 = z2

\* a step of the Export Engine or of the Validator
ReaderStep ==
    \/ pc = "export"
    \/ pc' = "export"
    \/ pc' = "validated"
    \/ expVars' # expVars
    \/ valVars' # valVars

\* C25: no step changes or removes a fact row of the store, and a step of
\* the Export Engine or of the Validator leaves every table, the store file
\* and the entry id sequence as they are.
C25_FrameConditions ==
    [][ /\ DataEntry \subseteq DataEntry'
        /\ ReaderStep => dbVars' = dbVars ]_vars

\* a store with rows was exported, a later run added rows to it, and it was
\* validated
C25_Witness ==
    /\ pc = "validated"
    /\ runNo >= 2
    /\ entriesAtExport # {}
    /\ entriesAtExport \subseteq DataEntry
    /\ entriesAtExport # DataEntry

\* C26: on either entry path the all-industries code of the list is among
\* the codes processed whenever level 2 is asked for, as "00" and never as
\* "0", and every code is checked for existence and requested under the
\* code its rows are stored under.
C26_AllIndustriesNormalized ==
    paths.at \in { "pairs", "done" } =>
        /\ (0 \in Range(paths.list) /\ 2 \in Range(paths.levels))
              => "00" \in Range(paths.codes)
        /\ "0" \notin Range(paths.codes)
        /\ \A k \in DOMAIN paths.pairs :
              /\ paths.pairs[k].check = paths.pairs[k].stored
              /\ paths.pairs[k].request = paths.pairs[k].stored

EarlierStatuses == SubSeq(hist, 1, Len(hist) - 1)

OwnFailure(unit) ==
    \E f \in xf.plan : f.state = unit[1] /\ f.level \in { 0, unit[2] }

\* C28: when the export is over, every unit without a failure of its own,
\* of a state that has ZIP codes, has its CSV written, and the total counts
\* the rows of every such unit.
C28_FailuresIsolated ==
    xf.at \in { "returned", "raised" } =>
        /\ \A unit \in StoreUnits(DimZipCode) :
              (~OwnFailure(unit) /\ state_zipcodes(DimZipCode, unit[1]) # {})
                  => unit \in xf.written
        /\ \A level \in Range(industry_levels) :
              xf.counts[level] >=
                 Cardinality({ e \in DataEntry :
                     /\ e.Year = TargetYear /\ e.IndustryLevel = level
                     /\ \E unit \in StoreUnits(DimZipCode) :
                           /\ unit[2] = level /\ ~OwnFailure(unit)
                           /\ e.GeoID \in state_zipcodes(DimZipCode, unit[1]) })

\* the unit has rows in the store and a CSV of as many rows
UnitExported(unit) ==
    /\ csv_file(validator_export_dir(CommandExportDir), state_name(unit[1]), unit[2],
                TargetYear) \in DOMAIN vt.files
    /\ count_rows_in_csv(vt.files, unit[1], unit[2])
          = count_rows_in_db(DataEntry, DimZipCode, unit[1], unit[2])

\* C29: the validator passes, and the command exits 0, only if every unit
\* with rows in the store has a CSV of as many rows, the states were
\* enumerated and there were some, and no count was a 0 put for a failed
\* read.
C29_NoVacuousPass ==
    (vt.at = "done" /\ vt.verdict = "pass") =>
        /\ \A unit \in StoreUnits(DimZipCode) :
              count_rows_in_db(DataEntry, DimZipCode, unit[1], unit[2]) > 0
                  => UnitExported(unit)
        /\ ~vt.enum_failed
        /\ vt.states # <<>>
        /\ vt.zeroed = {}

\* C30: the fetch of the latest year comes to an end, by returning a year
\* of 2012 or later or by raising, and the gap years printed are the years
\* after the latest local year up to the year returned.
C30_SchedulerTerminates ==
    /\ <>(sched.at \in { "raised", "printed" })
    /\ [](sched.at \in { "returned", "printed" } => sched.year >= MinYear)
    /\ [](sched.at = "printed" =>
            /\ Range(sched.gap_years) = (sched.local + 1)..sched.year
            /\ \A k \in 1..(Len(sched.gap_years) - 1) :
                  sched.gap_years[k] < sched.gap_years[k + 1])

====
